---- MODULE Spec2Model ----
(***************************************************************************)
(* Ticket workflow of src/main.go (first program of the file, lines 1-537):*)
(* the per-category sequence counter, the ticket channel with its          *)
(* permission overwrites, the messages of the channel (the ticket message  *)
(* carrying the assignee field, the admin panel, the ticket panel of the   *)
(* panel command, notices and chat), and the interaction handlers.         *)
(*                                                                         *)
(* discordgo runs every interaction handler in its own goroutine, so the   *)
(* handlers of different events interleave between any two of their calls. *)
(* The delivery of an interaction is a step (the member sees the channel   *)
(* and the button pressed is there at that moment), and so is every call   *)
(* of the handler that reads or changes the channel, its messages or its   *)
(* confirmations: a handler with calls left is a record in the bag         *)
(* handlers, whose field pc is the source line it goes on from and whose   *)
(* other fields are the interaction's data and the locals it keeps.        *)
(*                                                                         *)
(* Every call of the platform fails or succeeds nondeterministically, also *)
(* a call whose result the source discards; a call on a removed channel    *)
(* fails.  A failed s.Channel whose error the source drops (ch, _ :=)      *)
(* leaves ch nil, and the dereference that follows ends the process.       *)
(***************************************************************************)
EXTENDS Naturals, Sequences, FiniteSets, Bags

(* ------------------------------ bounds -------------------------------- *)

\* number of ticket_topic_select events handled in SpecCreate
MaxCreates == 3
\* number of admin panel messages a channel holds or is about to get
MaxPanels == 1
\* number of interactions delivered and not yet handled to their end, the
\* handlers in the sleep of main.go:237 aside
MaxInFlight == 2
\* number of close confirmations open or asked for in a channel at once
MaxDialogs == 1
\* number of delete_ticket_permanent handlers at once
MaxSleeping == 2
\* number of ticket_topic_select events handled in SpecNumber
MaxNumbered == 2
\* number of admin panels a channel holds or is about to get in SpecPanels
MaxPanelsPerTicket == 2
\* number of notices and public responses the handlers post into a channel
MaxNotices == 2
\* number of ticket panels the panel command posts into a channel
MaxTicketPanels == 1

(* --------------------------- configuration ---------------------------- *)

\* main.go:305 the number of messages ChannelMessages asks for
messagesLimit == 100

\* main.go:26 guildID; the @everyone role has the guild's id
guildID == "guild"
\* main.go:36
defaultSupportRoleID == "role_support"
\* main.go:48-49
openTicketsCategoryID == "open_area"
closedTicketsCategoryID == "closed_area"

\* main.go:53-57 ticketOptions: General = 일반민원, Legal = 법률구조,
\* Corruption = 부패신고
ticketOptions == {"General", "Legal", "Corruption"}

\* main.go:29-33
categorySupportRoles ==
    [c \in ticketOptions |->
        IF c = "Corruption" THEN "role_corruption" ELSE "role_support"]

\* guild members and the roles they hold (the guild's role assignment)
Users == {"u1", "u2", "u3"}
Roles == {guildID, "role_support", "role_corruption", "role_other"}
Subjects == Users \cup Roles
memberRoles ==
    [u \in Users |->
        IF u = "u2" THEN {"role_support"}
        ELSE IF u = "u3" THEN {"role_other"}
        ELSE {}]

None == "none"
NoField == <<>>
\* a subject without a permission overwrite on the channel
NoOverwrite == [type |-> "none", allow |-> {}, deny |-> {}]
NoOverwrites == [s \in Subjects |-> NoOverwrite]
\* a channel id no channel was created with yet, and one whose channel was
\* removed (the platform never reuses an id)
Blank(status) ==
    [status |-> status, name |-> <<>>, topic |-> <<>>, parent |-> None,
     overwrites |-> NoOverwrites, messages |-> <<>>,
     assigned |-> "", claimNotices |-> {}]
NoChannel == Blank("none")
Deleted == Blank("deleted")

View == "ViewChannel"
Send == "SendMessages"

ChannelIDs == 1..MaxCreates

VARIABLES
    counters,     \* the counter collection: category -> seq (0: no document)
    issued,       \* per category, the values getNextSequenceValue returned
    started,      \* number of ticket_topic_select events handled so far
    waiting,      \* getNextSequenceValue calls the store has not answered
    creating,     \* createTicketChannel handlers past getNextSequenceValue
    chan,         \* channel id -> channel, NoChannel or Deleted
    dialogs,      \* channel id -> the close confirmations with their buttons
    handlers,     \* the bag of the handlers with calls left to make
    archive,      \* channel ids whose transcript reached an archival channel
    last          \* the step taken last and the response or outcome it had

vars == <<counters, issued, started, waiting, creating, chan, dialogs,
          handlers, archive, last>>

(* ----------------------------- helpers -------------------------------- *)

IsChannel(t) == chan[t].status = "live"

Event(op, t, resp) == [op |-> op, ch |-> t, resp |-> resp]

\* a step in which a handler makes a call and sends no response
Call(t) == Event("call", t, "none")

\* the process runs until a handler dereferences a nil channel
Running == last.resp # "Panic"

Min(a, b) == IF a < b THEN a ELSE b

\* the test of main.go:482 alone, without the loop over the categories' roles
isDefaultSupportRole(roleID) == roleID = defaultSupportRoleID
\* main.go:481-491
isConfiguredSupportRole(roleID) ==
    \/ roleID = defaultSupportRoleID
    \/ \E c \in DOMAIN categorySupportRoles : categorySupportRoles[c] = roleID

\* main.go:320-326: the executor holds some configured support role
isManager(member) ==
    \E roleID \in memberRoles[member] : isConfiguredSupportRole(roleID)

\* main.go:125-129
supportRoleFor(topicValue) ==
    IF topicValue \in DOMAIN categorySupportRoles
    THEN categorySupportRoles[topicValue]
    ELSE defaultSupportRoleID

(* ------------------------- sequence allocator ------------------------- *)

\* an update that sets seq ("$set") where the code increments it
seqAfterSet(stored) == 1
\* main.go:108 "$inc": {"seq": 1}, with upsert (a missing document counts 0)
seqAfterInc(stored) == stored + 1

\* the call with the driver's default, ReturnDocument Before: the value read
\* back is the one stored before the update
getNextSequenceValueBefore(store, sequenceName) ==
    [store |-> [store EXCEPT ![sequenceName] = seqAfterInc(@)],
     value |-> store[sequenceName]]

\* the call with an empty filter: the update reaches a document whatever its
\* _id, here every stored counter
getNextSequenceValueAnyDocument(store, sequenceName) ==
    [store |-> [c \in DOMAIN store |-> seqAfterInc(store[c])],
     value |-> seqAfterInc(store[sequenceName])]

\* main.go:106-116: FindOneAndUpdate, ReturnDocument After: one atomic
\* server-side step giving the new store and the value read back
getNextSequenceValue(store, sequenceName) ==
    [store |-> [store EXCEPT ![sequenceName] = seqAfterInc(@)],
     value |-> seqAfterInc(store[sequenceName])]

\* main.go:130 fmt.Sprintf("%04d", nextSeq): the decimal digits, left-padded
\* with zeros to width 4 (wider numbers keep all their digits)
DigitChar(d) == <<"0", "1", "2", "3", "4", "5", "6", "7", "8", "9">>[d + 1]

RECURSIVE Digits(_)
Digits(n) ==
    IF n < 10 THEN <<DigitChar(n)>>
    ELSE Append(Digits(n \div 10), DigitChar(n % 10))

RECURSIVE PadLeft(_, _)
PadLeft(ds, width) ==
    IF Len(ds) >= width THEN ds ELSE PadLeft(<<"0">> \o ds, width)

\* the number formatted with "%03d"
ticketNumberWidth3(nextSeq) == PadLeft(Digits(nextSeq), 3)
ticketNumber(nextSeq) == PadLeft(Digits(nextSeq), 4)

\* main.go:135 the topic, as its parts: "User ID: <id> | Ticket ID: <c>-<n>"
topicOf(userID, topicValue, number) ==
    <<"User ID:", " ", userID, " ", "|", " ", "Ticket ID:", " ",
      topicValue, "-">> \o number

\* main.go:137-141
initialOverwrites(member, supportRoleID) ==
    [s \in Subjects |->
        IF s = guildID
        THEN [type |-> "role", allow |-> {}, deny |-> {View}]
        ELSE IF s = member
        THEN [type |-> "member", allow |-> {View, Send}, deny |-> {}]
        ELSE IF s = supportRoleID
        THEN [type |-> "role", allow |-> {View, Send}, deny |-> {}]
        ELSE NoOverwrite]

(* ------------------------------ messages ------------------------------ *)

\* A message of the bot with embeds and components has an id, the assignee
\* field of its first embed (NoField: none) and its buttons.  The messages
\* in between that the scan of main.go:310-315 passes over (notices and
\* public responses of the bot, which have no components, and the members'
\* chat) are kept as one entry with their number, which is counted up to
\* messagesLimit: ChannelMessages never returns more.
NoMessage ==
    [kind |-> "none", id |-> 0, assignee |-> NoField, buttons |-> {},
     disabled |-> {}, count |-> 0]

\* main.go:148-164 the ticket message: an embed without fields and the close
\* and claim buttons
ticketMessage(id) ==
    [kind |-> "ticket", id |-> id, assignee |-> NoField,
     buttons |-> {"close_ticket_request", "claim_ticket"}, disabled |-> {},
     count |-> 1]

\* main.go:265 the admin panel: an embed without fields, the reopen and the
\* delete button
adminPanel(id) ==
    [kind |-> "admin", id |-> id, assignee |-> NoField,
     buttons |-> {"reopen_ticket", "delete_ticket_permanent"},
     disabled |-> {}, count |-> 1]

\* main.go:243 the ticket panel: an embed without fields and the select menu
ticketPanel(id) ==
    [kind |-> "panel", id |-> id, assignee |-> NoField,
     buttons |-> {"ticket_topic_select"}, disabled |-> {}, count |-> 1]

\* main.go:247 the confirmation: an ephemeral message with the confirm and
\* the cancel button, which only the member who asked for it is shown; it is
\* no message of the channel's history
confirmation(id) ==
    [kind |-> "confirm", id |-> id, assignee |-> NoField,
     buttons |-> {"confirm_close_ticket", "cancel_close_ticket"},
     disabled |-> {}, count |-> 1]

\* n messages without components
plain(n) ==
    [kind |-> "plain", id |-> 0, assignee |-> NoField, buttons |-> {},
     disabled |-> {}, count |-> n]

\* the position of the message with the id among the messages (0: none)
Position(messages, id) ==
    IF \E k \in DOMAIN messages : messages[k].id = id /\ id # 0
    THEN CHOOSE k \in DOMAIN messages : messages[k].id = id
    ELSE 0

\* discordgo ChannelMessageSend*: the message becomes the channel's newest
ChannelMessageSend(messages, m) ==
    IF m.kind = "plain" /\ messages # <<>>
       /\ messages[Len(messages)].kind = "plain"
    THEN [messages EXCEPT
             ![Len(messages)].count = Min(@ + m.count, messagesLimit)]
    ELSE Append(messages, m)

\* discordgo ChannelMessageDelete: the message with the id is gone
ChannelMessageDelete(messages, id) ==
    LET k == Position(messages, id) IN
    IF k = 0 THEN messages
    ELSE IF k > 1 /\ k < Len(messages)
            /\ messages[k - 1].kind = "plain" /\ messages[k + 1].kind = "plain"
    THEN SubSeq(messages, 1, k - 2)
         \o <<plain(Min(messages[k - 1].count + messages[k + 1].count,
                        messagesLimit))>>
         \o SubSeq(messages, k + 2, Len(messages))
    ELSE SubSeq(messages, 1, k - 1) \o SubSeq(messages, k + 1, Len(messages))

\* discordgo ChannelMessageEditComplex and the UpdateMessage response: the
\* embeds and the components of the message with the id are replaced
ChannelMessageEdit(messages, id, m) ==
    LET k == Position(messages, id) IN
    IF k = 0 THEN messages ELSE [messages EXCEPT ![k] = m]

\* main.go:305-315: ChannelMessages returns the newest messagesLimit
\* messages, the newest first; the first message of the bot with embeds and
\* components among them is taken.  fetched is the number of messages newer
\* than messages[k]; the result is a position, 0 for none.
RECURSIVE scanMessages(_, _, _)
scanMessages(messages, k, fetched) ==
    IF k = 0 \/ fetched >= messagesLimit THEN 0
    ELSE IF messages[k].kind = "plain"
    THEN scanMessages(messages, k - 1, fetched + messages[k].count)
    ELSE k

findTicketMessage(messages) == scanMessages(messages, Len(messages), 0)

\* one more message without components is within the histories looked at:
\* notices counts the messages without components the handlers have posted
\* into the channel, as far as their number still counts for the scan
CanPost(t) ==
    LET messages == chan[t].messages
        RECURSIVE notices(_)
        notices(k) ==
            IF k = 0 THEN 0
            ELSE notices(k - 1)
                 + (IF messages[k].kind = "plain"
                       /\ messages[k].count < messagesLimit
                    THEN messages[k].count ELSE 0)
    IN \/ notices(Len(messages)) < MaxNotices
       \/ /\ messages # <<>>
          /\ messages[Len(messages)] = plain(messagesLimit)

\* the ids of the channel's messages and of the messages the handlers in
\* flight hold
UsedMessageIDs(t) ==
    {chan[t].messages[k].id : k \in DOMAIN chan[t].messages}
    \cup {h.msg.id : h \in {g \in BagToSet(handlers) :
                                g.ch = t /\ g.msg.kind # "confirm"}}

\* the id of a new message: one no message has and no handler holds (the
\* platform never hands out an id twice)
FreshMessageID(t) ==
    CHOOSE id \in 1..(Cardinality(UsedMessageIDs(t)) + 1) :
        /\ id \notin UsedMessageIDs(t)
        /\ \A j \in 1..(id - 1) : j \in UsedMessageIDs(t)

\* the id of a new confirmation: the responses to interactions are no
\* messages of the channel and are numbered apart from them
FreshConfirmationID(t) ==
    LET used == {d.id : d \in dialogs[t]}
                \cup {h.msg.id : h \in {g \in BagToSet(handlers) :
                                            g.ch = t /\ g.msg.kind = "confirm"}}
    IN CHOOSE id \in 1..(Cardinality(used) + 1) :
           /\ id \notin used
           /\ \A j \in 1..(id - 1) : j \in used

\* the positions of the admin panels among the channel's messages
Panels(t) ==
    {k \in DOMAIN chan[t].messages : chan[t].messages[k].kind = "admin"}

\* the ticket message of the channel, NoMessage before it is posted
TicketMessageOf(t) ==
    IF \E k \in DOMAIN chan[t].messages : chan[t].messages[k].kind = "ticket"
    THEN chan[t].messages[CHOOSE k \in DOMAIN chan[t].messages :
                              chan[t].messages[k].kind = "ticket"]
    ELSE NoMessage

(* ------------------------- channel and strings ------------------------ *)

\* discordgo ChannelPermissionSet: the overwrite of id is replaced
ChannelPermissionSet(overwrites, id, type, allow, deny) ==
    [overwrites EXCEPT ![id] = [type |-> type, allow |-> allow, deny |-> deny]]

\* discordgo ChannelPermissionDelete: the overwrite of id is removed
ChannelPermissionDelete(overwrites, id) ==
    [overwrites EXCEPT ![id] = NoOverwrite]

\* Whether a member sees the channel, as the platform computes it from the
\* overwrites the handlers write (main.go:137-141, 258, 404, 444, 472):
\* @everyone's overwrite, then the overwrites of the member's roles, then the
\* member's own.  Only members who see a channel can press its buttons or
\* run a command in it.
CanView(t, member) ==
    LET ow == chan[t].overwrites
        everyone == View \notin ow[guildID].deny \/ View \in ow[guildID].allow
        held == memberRoles[member]
        byRole ==
            \/ \E r \in held : View \in ow[r].allow
            \/ everyone /\ \A r \in held : View \notin ow[r].deny
    IN /\ IsChannel(t)
       /\ \/ View \in ow[member].allow
          \/ byRole /\ View \notin ow[member].deny

\* main.go:352, 358 User.Mention(): "<@" id ">"
UserMention(userID) == <<"<", "@", userID, ">">>

\* main.go:278 Member.Mention(): "<@!" id ">"
MemberMention(userID) == <<"<", "@", "!", userID, ">">>

\* main.go:330 strings.Trim(value, "<@!>"): the leading and the trailing
\* characters of the cutset are dropped
RECURSIVE TrimLeft(_, _)
TrimLeft(s, cutset) ==
    IF s # <<>> /\ Head(s) \in cutset THEN TrimLeft(Tail(s), cutset) ELSE s

RECURSIVE TrimRight(_, _)
TrimRight(s, cutset) ==
    IF s # <<>> /\ s[Len(s)] \in cutset
    THEN TrimRight(SubSeq(s, 1, Len(s) - 1), cutset)
    ELSE s

Trim(s, cutset) == TrimRight(TrimLeft(s, cutset), cutset)

\* a string of parts as one id: "" when nothing is left
AsID(s) == IF s = <<>> THEN "" ELSE s[1]

\* main.go:300 strings.Contains(ch.Topic, "User ID:")
ContainsUserID(topic) == \E k \in DOMAIN topic : topic[k] = "User ID:"

\* strings.Split(topic, "|"): the parts between the separators
RECURSIVE Split(_, _)
Split(s, sep) ==
    IF \A k \in DOMAIN s : s[k] # sep THEN <<s>>
    ELSE LET k == CHOOSE i \in DOMAIN s :
                      s[i] = sep /\ \A j \in 1..(i - 1) : s[j] # sep
         IN <<SubSeq(s, 1, k - 1)>> \o Split(SubSeq(s, k + 1, Len(s)), sep)

\* the same without strings.TrimSpace (main.go:413)
getUserIDFromTopicUntrimmed(topic) ==
    LET parts == Split(topic, "|")
        hits == {k \in DOMAIN parts : ContainsUserID(parts[k])}
    IN IF hits = {} THEN ""
       ELSE LET part == parts[CHOOSE k \in hits : \A j \in hits : k <= j]
                rest == IF part[1] = "User ID:" THEN Tail(part) ELSE part
            IN AsID(rest)

\* main.go:409-418: the first part holding "User ID:", without that prefix
\* (when the part starts with it) and without the surrounding spaces
getUserIDFromTopic(topic) ==
    LET parts == Split(topic, "|")
        hits == {k \in DOMAIN parts : ContainsUserID(parts[k])}
    IN IF hits = {} THEN ""
       ELSE LET part == parts[CHOOSE k \in hits : \A j \in hits : k <= j]
                rest == IF part[1] = "User ID:" THEN Tail(part) ELSE part
            IN AsID(Trim(rest, {" "}))

\* main.go:327-332 the id in the assignee field, "" without the field
currentAssigneeID(message) == AsID(Trim(message.assignee, {"<", "@", "!", ">"}))

\* main.go:337-343
\* the loop without the comparison of po.ID with the target: some overwrite
\* of the channel allows the view
canSeeChannelAnySubject(overwrites, userID) ==
    \E s \in Subjects : (overwrites[s].allow \cap {View}) = {View}
canSeeChannel(overwrites, userID) ==
    (overwrites[userID].allow \cap {View}) = {View}

\* the message with its buttons as they are
claimLeftEnabled(message) == message

\* main.go:280-291, 360-369: the claim button, when present, is disabled
disableClaim(message) ==
    [message EXCEPT !.disabled = @ \cup ({"claim_ticket"} \cap message.buttons)]

\* the state of a ticket: the area its channel is placed in
\* (main.go:136, 260, 394), Deleted once the channel is removed (main.go:238)
TicketState(t) ==
    IF chan[t].status = "deleted" THEN "Deleted"
    ELSE IF chan[t].status = "none" THEN "None"
    ELSE IF chan[t].parent = closedTicketsCategoryID THEN "Closed"
    ELSE "Open"

\* the support role resolved for the ticket's category (main.go:125-129),
\* the category being the first part of the channel name (main.go:131)
SupportRoleOf(t) == supportRoleFor(chan[t].name[1])

\* the owner of a ticket, as the handlers read it from the topic
OwnerOf(t) == getUserIDFromTopic(chan[t].topic)

\* main.go:292, 371: the member the last accepted claim or the last accepted
\* transfer made the assignee, whatever message it was written on ("" before
\* the first)
LastAssigned(t) == chan[t].assigned

\* main.go:293: the members the claim notices posted in the channel name
ClaimNotices(t) == chan[t].claimNotices

\* the assignee the ticket message shows, which a claim reads (main.go:271)
AssigneeOf(t) == currentAssigneeID(TicketMessageOf(t))

\* the assignee the message found by the scan shows, which a transfer reads
\* (main.go:310-332)
FoundAssigneeOf(t) ==
    IF findTicketMessage(chan[t].messages) = 0 THEN ""
    ELSE currentAssigneeID(
             chan[t].messages[findTicketMessage(chan[t].messages)])

Quiet == UNCHANGED <<counters, issued, started, waiting, creating, archive>>

(* ------------------------ handlers in flight -------------------------- *)

\* a handler that goes on from line pc: the channel and the member of its
\* interaction ("" when the handler has no further use of the member), the
\* user or role it was given or read, the overwrites it read, the message
\* it holds
Handler(op, pc, t, member, user, seen, msg) ==
    [op |-> op, pc |-> pc, ch |-> t, member |-> member, user |-> user,
     seen |-> seen, msg |-> msg]

\* the number of handlers with calls left among the records hs
HandlersAmong(hs) ==
    BagCardinality([h \in hs \cap BagToSet(handlers) |-> CopiesIn(h, handlers)])

\* the interactions delivered whose handler has calls left to make and is
\* not in the sleep of main.go:237
InFlight == HandlersAmong({h \in BagToSet(handlers) : h.pc # 238})

\* handler h is about to go on from line pc
At(h, op, pc) == BagIn(h, handlers) /\ h.op = op /\ h.pc = pc

\* main.go:190-197 an interaction is delivered and its handler is started
Start(h) ==
    /\ InFlight < MaxInFlight
    /\ handlers' = handlers (+) SetToBag({h})

\* the handler goes on as g
Continue(h, g) == handlers' = (handlers (-) SetToBag({h})) (+) SetToBag({g})

\* the handler goes on with the call of line pc
Goto(h, pc) == Continue(h, [h EXCEPT !.pc = pc])

\* the handler returns
Return(h) == handlers' = handlers (-) SetToBag({h})

\* main.go:252-253, 299-300, 392-393, 421-422: s.Channel failed, its error
\* was dropped and ch is nil: the dereference panics, no handler recovers,
\* and the process ends with all its goroutines
nilChannel(op, t) ==
    /\ last' = Event(op, t, "Panic")
    /\ handlers' = EmptyBag
    /\ creating' = {}
    /\ waiting' = {}
    /\ UNCHANGED <<counters, issued, started, chan, dialogs, archive>>

(* ------------------------------ creation ------------------------------ *)

\* the handler without the test of err (main.go:120): after a failed call it
\* goes on with the zero value the call returned
createTicketChannel_allocUnchecked(member, topicValue, limit, ok, applied) ==
    LET r == getNextSequenceValue(counters, topicValue)
        nextSeq == IF ok THEN r.value ELSE 0
    IN
    /\ Running
    /\ started < limit
    /\ started' = started + 1
    /\ counters' = IF ok \/ applied THEN r.store ELSE counters
    /\ issued' = IF ok THEN [issued EXCEPT ![topicValue] = Append(@, r.value)]
                 ELSE issued
    /\ creating' = creating \cup
         {[h |-> started + 1, member |-> member,
           topicValue |-> topicValue, nextSeq |-> nextSeq, ch |-> 0]}
    /\ last' = Event("getNextSequenceValue", 0, "none")
    /\ UNCHANGED <<chan, dialogs, handlers, archive>>

\* main.go:118-124: the handler of a ticket_topic_select event up to the
\* return of getNextSequenceValue.  A failed call may or may not have been
\* applied by the store before the error reached the client.  The calls in
\* waiting are left to the action that takes this step.
createTicketChannel_alloc(member, topicValue, limit, ok, applied) ==
    LET r == getNextSequenceValue(counters, topicValue) IN
    /\ Running
    /\ started < limit
    /\ started' = started + 1
    /\ counters' = IF ok \/ applied THEN r.store ELSE counters
    /\ IF ok
       THEN /\ issued' = [issued EXCEPT ![topicValue] = Append(@, r.value)]
            /\ creating' = creating \cup
                 {[h |-> started + 1, member |-> member,
                   topicValue |-> topicValue, nextSeq |-> r.value, ch |-> 0]}
            /\ last' = Event("getNextSequenceValue", 0, "none")
       ELSE /\ UNCHANGED <<issued, creating>>
            /\ last' = Event("ticket_topic_select", 0, "SequenceFailed")
    /\ UNCHANGED <<chan, dialogs, handlers, archive>>

\* main.go:125-147: GuildChannelCreateComplex and the response.  A failed
\* channel creation is logged and the handler returns without a response;
\* after a successful one the handler has the ticket message left to send.
createTicketChannel_create(p, ok) ==
    LET t == Cardinality({c \in ChannelIDs : chan[c].status # "none"}) + 1
        supportRoleID == supportRoleFor(p.topicValue)
        number == ticketNumber(p.nextSeq)
    IN
    /\ Running
    /\ p \in creating
    /\ p.ch = 0
    /\ IF ok /\ t \in ChannelIDs
       THEN /\ chan' = [chan EXCEPT ![t] =
                 [status |-> "live",
                  name |-> <<p.topicValue, "-">> \o number,
                  topic |-> topicOf(p.member, p.topicValue, number),
                  parent |-> openTicketsCategoryID,
                  overwrites |-> initialOverwrites(p.member, supportRoleID),
                  messages |-> <<>>,
                  assigned |-> "", claimNotices |-> {}]]
            /\ creating' = (creating \ {p}) \cup {[p EXCEPT !.ch = t]}
            /\ last' = Event("ticket_topic_select", t, "ChannelCreated")
       ELSE /\ UNCHANGED chan
            /\ creating' = creating \ {p}
            /\ last' = Event("ticket_topic_select", 0, "none")
    /\ UNCHANGED <<counters, issued, started, waiting, dialogs, handlers,
                   archive>>

\* main.go:148-165: ChannelMessageSendComplex of the ticket message, whose
\* result is discarded: when the call fails the channel stays without
\* ticket message
createTicketChannel_165(p, ok) ==
    /\ Running
    /\ p \in creating
    /\ p.ch # 0
    /\ creating' = creating \ {p}
    /\ IF ok /\ IsChannel(p.ch)
       THEN /\ chan' = [chan EXCEPT ![p.ch].messages =
                 ChannelMessageSend(@, ticketMessage(FreshMessageID(p.ch)))]
            /\ last' = Call(p.ch)
       ELSE /\ UNCHANGED chan
            /\ last' = Call(p.ch)
    /\ UNCHANGED <<counters, issued, started, waiting, dialogs, handlers,
                   archive>>

(* ------------------- the call of the counter store -------------------- *)

\* main.go:111 up to the request: the handler of a ticket_topic_select event
\* sends FindOneAndUpdate with context.TODO(), a context without deadline,
\* and waits for the answer
getNextSequenceValue_send(member, topicValue, limit) ==
    /\ Running
    /\ started + Cardinality(waiting) < limit
    /\ waiting' = waiting \cup
          {[id |-> started + Cardinality(waiting) + 1, member |-> member,
            topicValue |-> topicValue]}
    /\ last' = Event("FindOneAndUpdate", 0, "none")
    /\ UNCHANGED <<counters, issued, started, creating, chan, dialogs,
                   handlers, archive>>

\* main.go:111-124: the store answers call w, with the document or with an
\* error, and the handler goes on
getNextSequenceValue_answer(w, limit, ok, applied) ==
    /\ w \in waiting
    /\ waiting' = waiting \ {w}
    /\ createTicketChannel_alloc(w.member, w.topicValue, limit, ok, applied)

(* ----------------------------- dispatch ------------------------------- *)

\* main.go:199-217: a member runs one of the commands in a channel the
\* member sees, with the user or the role the command takes, and its handler
\* is started.  The handler goes on from its first call that reads or
\* changes the channel; the user or role named is resolved on the way
\* (main.go:297, 430, 454, 494, 505).  executor is the member where the
\* handler reads i.Member (main.go:321; main.go:247 shows the confirmation
\* to the member), "" where it does not; subjects are the users and roles
\* the commands are run with.
handleSlashCommands(names, subjects) ==
    \E name \in names, t \in ChannelIDs, executor \in Users \cup {""},
       option \in subjects \cup {""} :
        LET pc == CASE name = "sendTicketPanel" -> 243
                    [] name = "closeTicket" -> 421
                    [] name = "addUserToTicket" -> 431
                    [] name = "removeUserFromTicket" -> 495
                    [] name = "addRoleToTicket" -> 455
                    [] name = "removeRoleFromTicket" -> 506
                    [] name = "handleChangeAssignee" -> 299
            options ==
                CASE name \in {"addUserToTicket", "removeUserFromTicket",
                               "handleChangeAssignee"} -> Users
                  [] name \in {"addRoleToTicket", "removeRoleFromTicket"} -> Roles
                  [] OTHER -> {""}
        IN
        /\ Running
        /\ IF name \in {"closeTicket", "handleChangeAssignee"}
           THEN executor \in Users /\ CanView(t, executor)
           ELSE executor = "" /\ \E member \in Users : CanView(t, member)
        /\ option \in options
        /\ name = "sendTicketPanel" =>
              Cardinality({k \in DOMAIN chan[t].messages :
                              chan[t].messages[k].kind = "panel"})
                + HandlersAmong({h \in BagToSet(handlers) : h.ch = t /\ h.pc = 243})
                    < MaxTicketPanels
        /\ name = "closeTicket" =>
              Cardinality(dialogs[t])
                + HandlersAmong({h \in BagToSet(handlers) : h.ch = t /\ h.pc \in {247, 421}})
                    < MaxDialogs
        /\ Start(Handler(name, pc, t, executor, option, NoOverwrites, NoMessage))
        /\ last' = Call(t)
        /\ UNCHANGED <<chan, dialogs>>
        /\ Quiet

\* main.go:219-240: a member who sees the channel presses a button of one of
\* its messages, or of a confirmation the member was shown, and the handler
\* is started with the message as it is at that moment (i.Message).  A
\* client that has not yet drawn a disabled button can still press it, which
\* is the case main.go:272-277 exists for.  presser is the member, "" for
\* the buttons of a confirmation, whose handlers make no use of i.Member.
\* panels caps the admin panels of a channel, those the handlers in flight
\* have left to post included.
handleMessageComponent(customIDs, panels) ==
    \E customID \in customIDs, t \in ChannelIDs, presser \in Users \cup {""} :
      \E message \in
            {chan[t].messages[k] : k \in DOMAIN chan[t].messages}
            \cup {confirmation(d.id) : d \in dialogs[t]} :
        LET pc == CASE customID = "close_ticket_request" -> 247
                    [] customID = "confirm_close_ticket" -> 251
                    [] customID = "cancel_close_ticket" -> 229
                    [] customID = "claim_ticket" -> 271
                    [] customID = "reopen_ticket" -> 392
                    [] customID = "delete_ticket_permanent" -> 236
            held == IF customID \in {"close_ticket_request",
                                     "delete_ticket_permanent"}
                    THEN NoMessage ELSE message
        IN
        /\ Running
        /\ customID \in message.buttons
        /\ IF message.kind = "confirm"
           THEN /\ presser = ""
                /\ \E d \in dialogs[t] :
                      d.id = message.id /\ CanView(t, d.member)
           ELSE presser \in Users /\ CanView(t, presser)
        /\ customID = "close_ticket_request" =>
              Cardinality(dialogs[t])
                + HandlersAmong({h \in BagToSet(handlers) : h.ch = t /\ h.pc \in {247, 421}})
                    < MaxDialogs
        /\ customID = "confirm_close_ticket" =>
              Cardinality(Panels(t))
                + HandlersAmong({h \in BagToSet(handlers) : /\ h.ch = t
                                                            /\ h.op = "confirm_close_ticket"
                                                            /\ h.pc < 267})
                    < panels
        /\ customID = "delete_ticket_permanent" =>
              HandlersAmong({h \in BagToSet(handlers) : h.op = "delete_ticket_permanent"})
                  < MaxSleeping
        /\ Start(Handler(customID, pc, t, presser, "", NoOverwrites, held))
        /\ last' = Call(t)
        /\ UNCHANGED <<chan, dialogs>>
        /\ Quiet

(* ------------------------------ handlers ------------------------------ *)

\* main.go:242-244: the panel command: the response is a message of the bot
\* in the channel the command was run in, with an embed and the select menu
sendTicketPanel(h, ok) ==
    /\ Running
    /\ At(h, "sendTicketPanel", 243)
    /\ Return(h)
    /\ IF ok /\ IsChannel(h.ch)
       THEN /\ chan' = [chan EXCEPT ![h.ch].messages =
                 ChannelMessageSend(@, ticketPanel(FreshMessageID(h.ch)))]
            /\ last' = Event("sendTicketPanel", h.ch, "TicketPanel")
       ELSE /\ UNCHANGED chan
            /\ last' = Event("sendTicketPanel", h.ch, "Failed")
    /\ UNCHANGED dialogs
    /\ Quiet

\* the members write messagesLimit messages into the channel: messages
\* without components, which ChannelMessages (main.go:305) returns
PostMessages(t, member) ==
    /\ Running
    /\ CanView(t, member)
    /\ chan[t].messages # <<>>
    /\ chan[t].messages[Len(chan[t].messages)] # plain(messagesLimit)
    /\ chan' = [chan EXCEPT ![t].messages =
                   ChannelMessageSend(@, plain(messagesLimit))]
    /\ last' = Call(t)
    /\ UNCHANGED <<dialogs, handlers>>
    /\ Quiet

\* main.go:246-248: the response to the close button and, after
\* main.go:426, to the close command: the confirmation is shown to the
\* member; the ticket is not touched
handleCloseRequest(h, ok) ==
    /\ Running
    /\ BagIn(h, handlers)
    /\ h.op \in {"close_ticket_request", "closeTicket"}
    /\ h.pc = 247
    /\ Return(h)
    /\ IF ok /\ IsChannel(h.ch)
       THEN /\ dialogs' = [dialogs EXCEPT ![h.ch] = @ \cup
                 {[id |-> FreshConfirmationID(h.ch), member |-> h.member]}]
            /\ last' = Event(h.op, h.ch, "ConfirmClose")
       ELSE /\ UNCHANGED dialogs
            /\ last' = Event(h.op, h.ch, "Failed")
    /\ UNCHANGED chan
    /\ Quiet

\* main.go:420-426: the close command: the channel is read and its topic is
\* looked at
closeTicket_421(h, readOk) ==
    /\ Running
    /\ At(h, "closeTicket", 421)
    /\ IF ~(readOk /\ IsChannel(h.ch))
       THEN nilChannel("closeTicket", h.ch)
       ELSE /\ IF chan[h.ch].topic = <<>>
               THEN /\ Return(h)
                    /\ last' = Event("closeTicket", h.ch, "NotTicketChannel")
               ELSE /\ Goto(h, 247)
                    /\ last' = Call(h.ch)
            /\ UNCHANGED <<chan, dialogs>>
            /\ Quiet

\* discordgo ChannelMessageDelete of a confirmation, and the response that
\* takes its buttons off (main.go:251): it is no longer there to be pressed
withoutConfirmation(confirmations, id) == {d \in confirmations : d.id # id}

\* a cancel that also puts the channel back into the open area
cancel_close_ticketToOpen(h, ok) ==
    /\ Running
    /\ At(h, "cancel_close_ticket", 229)
    /\ Return(h)
    /\ IF ok /\ IsChannel(h.ch)
       THEN /\ dialogs' = [dialogs EXCEPT ![h.ch] =
                             withoutConfirmation(@, h.msg.id)]
            /\ chan' = [chan EXCEPT ![h.ch].parent = openTicketsCategoryID]
       ELSE UNCHANGED <<chan, dialogs>>
    /\ last' = Event("cancel_close_ticket", h.ch, "UpdateMessage")
    /\ Quiet

\* main.go:228-230: the cancel button of a confirmation: the response leaves
\* the confirmation as it is and ChannelMessageDelete, its result discarded,
\* takes it away
cancel_close_ticket(h, ok) ==
    /\ Running
    /\ At(h, "cancel_close_ticket", 229)
    /\ Return(h)
    /\ IF ok /\ IsChannel(h.ch)
       THEN dialogs' = [dialogs EXCEPT ![h.ch] =
                           withoutConfirmation(@, h.msg.id)]
       ELSE UNCHANGED dialogs
    /\ last' = Event("cancel_close_ticket", h.ch, "UpdateMessage")
    /\ UNCHANGED chan
    /\ Quiet

\* main.go:251: the response to the confirm button, its result discarded:
\* the confirmation's embed is replaced and its buttons are taken off
handleConfirmClose_251(h, ok) ==
    /\ Running
    /\ At(h, "confirm_close_ticket", 251)
    /\ Goto(h, 252)
    /\ IF ok /\ IsChannel(h.ch)
       THEN dialogs' = [dialogs EXCEPT ![h.ch] =
                           withoutConfirmation(@, h.msg.id)]
       ELSE UNCHANGED dialogs
    /\ last' = Call(h.ch)
    /\ UNCHANGED chan
    /\ Quiet

\* main.go:252-257: the channel is read and the owner is taken from its topic
handleConfirmClose_252(h, readOk) ==
    LET userID == getUserIDFromTopic(chan[h.ch].topic) IN
    /\ Running
    /\ At(h, "confirm_close_ticket", 252)
    /\ IF ~(readOk /\ IsChannel(h.ch))
       THEN nilChannel("confirm_close_ticket", h.ch)
       ELSE /\ IF userID = ""
               THEN /\ Return(h)
                    /\ last' = Event("confirm_close_ticket", h.ch, "NoOwner")
               ELSE /\ Continue(h, [h EXCEPT !.pc = 258, !.member = "",
                                             !.user = userID])
                    /\ last' = Call(h.ch)
            /\ UNCHANGED <<chan, dialogs>>
            /\ Quiet

\* main.go:258 the owner's overwrite is replaced: nothing allowed, the view
\* denied
handleConfirmClose_overwrites(overwrites, userID) ==
    ChannelPermissionSet(overwrites, userID, "member", {}, {View})

\* main.go:258 ChannelPermissionSet, its result discarded
handleConfirmClose_258(h, ok) ==
    /\ Running
    /\ At(h, "confirm_close_ticket", 258)
    /\ Goto(h, 259)
    /\ IF ok /\ IsChannel(h.ch)
       THEN chan' = [chan EXCEPT ![h.ch].overwrites =
                        handleConfirmClose_overwrites(@, h.user)]
       ELSE UNCHANGED chan
    /\ last' = Call(h.ch)
    /\ UNCHANGED dialogs
    /\ Quiet

\* main.go:259-264 ChannelEditComplex: the channel is moved to the closed
\* area; a failure is logged and the handler goes on
handleConfirmClose_259(h, moveOk) ==
    /\ Running
    /\ At(h, "confirm_close_ticket", 259)
    /\ Goto(h, 266)
    /\ IF moveOk /\ IsChannel(h.ch)
       THEN chan' = [chan EXCEPT ![h.ch].parent = closedTicketsCategoryID]
       ELSE UNCHANGED chan
    /\ last' = Call(h.ch)
    /\ UNCHANGED dialogs
    /\ Quiet

\* main.go:265-266 ChannelMessageSendComplex of the admin panel, its result
\* discarded
handleConfirmClose_266(h, ok) ==
    /\ Running
    /\ At(h, "confirm_close_ticket", 266)
    /\ Goto(h, 267)
    /\ IF ok /\ IsChannel(h.ch)
       THEN /\ chan' = [chan EXCEPT ![h.ch].messages =
                 ChannelMessageSend(@, adminPanel(FreshMessageID(h.ch)))]
            /\ last' = Event("confirm_close_ticket", h.ch, "AdminPanel")
       ELSE /\ UNCHANGED chan
            /\ last' = Event("confirm_close_ticket", h.ch, "Failed")
    /\ UNCHANGED dialogs
    /\ Quiet

\* main.go:267 ChannelMessageDelete of the confirmation, its result
\* discarded; the handler returns
handleConfirmClose_267(h, ok) ==
    /\ Running
    /\ At(h, "confirm_close_ticket", 267)
    /\ Return(h)
    /\ IF ok /\ IsChannel(h.ch)
       THEN dialogs' = [dialogs EXCEPT ![h.ch] =
                           withoutConfirmation(@, h.msg.id)]
       ELSE UNCHANGED dialogs
    /\ last' = Call(h.ch)
    /\ UNCHANGED chan
    /\ Quiet

\* the handler deciding on the ticket message as it is in the channel when
\* the event is handled, not on the copy the event carries
handleClaimTicketOnChannelMessage(e, ok) ==
    LET originalEmbed ==
            IF TicketMessageOf(e.ch) = NoMessage THEN e.msg
            ELSE TicketMessageOf(e.ch)
        claimed == disableClaim(
                       [originalEmbed EXCEPT !.assignee = MemberMention(e.member)])
    IN
    /\ Running
    /\ At(e, "claim_ticket", 271)
    /\ IF originalEmbed.assignee # NoField
       THEN /\ Return(e)
            /\ UNCHANGED chan
            /\ last' = Event("claim_ticket", e.ch, "AlreadyAssigned")
       ELSE /\ Continue(e, [e EXCEPT !.pc = 293, !.msg = NoMessage])
            /\ IF ok /\ IsChannel(e.ch)
                  /\ Position(chan[e.ch].messages, e.msg.id) # 0
               THEN /\ chan' = [chan EXCEPT
                          ![e.ch].messages =
                              ChannelMessageEdit(@, e.msg.id, claimed),
                          ![e.ch].assigned = e.member]
                    /\ last' = Event("claim_ticket", e.ch, "Assigned")
               ELSE /\ UNCHANGED chan
                    /\ last' = Event("claim_ticket", e.ch, "Failed")
    /\ UNCHANGED dialogs
    /\ Quiet

\* main.go:270-292: decided on the message the interaction carries; the
\* response replaces the ticket message's embed and components by the
\* carried ones with the assignee field added and the claim button disabled
handleClaimTicket(e, ok) ==
    LET originalEmbed == e.msg
        claimed == disableClaim(
                       [originalEmbed EXCEPT !.assignee = MemberMention(e.member)])
    IN
    /\ Running
    /\ At(e, "claim_ticket", 271)
    /\ IF originalEmbed.assignee # NoField
       THEN /\ Return(e)
            /\ UNCHANGED chan
            /\ last' = Event("claim_ticket", e.ch, "AlreadyAssigned")
       ELSE /\ Continue(e, [e EXCEPT !.pc = 293, !.msg = NoMessage])
            /\ IF ok /\ IsChannel(e.ch)
                  /\ Position(chan[e.ch].messages, e.msg.id) # 0
               THEN /\ chan' = [chan EXCEPT
                          ![e.ch].messages =
                              ChannelMessageEdit(@, e.msg.id, claimed),
                          ![e.ch].assigned = e.member]
                    /\ last' = Event("claim_ticket", e.ch, "Assigned")
               ELSE /\ UNCHANGED chan
                    /\ last' = Event("claim_ticket", e.ch, "Failed")
    /\ UNCHANGED dialogs
    /\ Quiet

\* main.go:293 ChannelMessageSendEmbed: the notice naming the member as the
\* assignee, sent whatever became of the response of main.go:292
handleClaimTicket_293(h, ok) ==
    /\ Running
    /\ At(h, "claim_ticket", 293)
    /\ Return(h)
    /\ IF ok /\ IsChannel(h.ch)
       THEN /\ CanPost(h.ch)
            /\ chan' = [chan EXCEPT
                   ![h.ch].messages = ChannelMessageSend(@, plain(1)),
                   ![h.ch].claimNotices = @ \cup {h.member}]
       ELSE UNCHANGED chan
    /\ last' = Call(h.ch)
    /\ UNCHANGED dialogs
    /\ Quiet

\* main.go:296-303: the assignee command: the channel is read and its topic
\* is looked at
handleChangeAssignee_299(h, readOk) ==
    /\ Running
    /\ At(h, "handleChangeAssignee", 299)
    /\ IF ~(readOk /\ IsChannel(h.ch))
       THEN nilChannel("handleChangeAssignee", h.ch)
       ELSE /\ IF ~ContainsUserID(chan[h.ch].topic)
               THEN /\ Return(h)
                    /\ last' = Event("handleChangeAssignee", h.ch,
                                     "NotTicketChannel")
               ELSE /\ Continue(h, [h EXCEPT !.pc = 305,
                                             !.seen = chan[h.ch].overwrites])
                    /\ last' = Call(h.ch)
            /\ UNCHANGED <<chan, dialogs>>
            /\ Quiet

\* main.go:348-369: the message found, with the assignee field set to the
\* target's mention and the claim button disabled
handleChangeAssignee_edited(message, targetUser) ==
    disableClaim([message EXCEPT !.assignee = UserMention(targetUser)])

\* main.go:304-347: the response after ChannelMessages, "" when the handler
\* goes on to edit the message
handleChangeAssignee_response(messages, messagesOk, seen, executor, targetUser) ==
    LET k == findTicketMessage(messages) IN
    IF ~messagesOk THEN "FindFailed"
    ELSE IF k = 0 THEN "NoTicketMessage"
    ELSE IF ~isManager(executor) /\ executor # currentAssigneeID(messages[k])
    THEN "NoPermission"
    ELSE IF ~canSeeChannel(seen, targetUser) THEN "CannotSee"
    ELSE ""

\* main.go:304-369 ChannelMessages, the scan and the tests
handleChangeAssignee_305(h, messagesOk) ==
    LET messages == chan[h.ch].messages
        fetched == messagesOk /\ IsChannel(h.ch)
        resp == handleChangeAssignee_response(messages, fetched, h.seen,
                                              h.member, h.user)
        k == findTicketMessage(messages)
    IN
    /\ Running
    /\ At(h, "handleChangeAssignee", 305)
    /\ IF resp = ""
       THEN /\ Continue(h, [h EXCEPT !.pc = 371, !.member = "", !.seen = NoOverwrites,
                            !.msg = handleChangeAssignee_edited(messages[k],
                                                                h.user)])
            /\ last' = Call(h.ch)
       ELSE /\ Return(h)
            /\ last' = Event("handleChangeAssignee", h.ch, resp)
    /\ UNCHANGED <<chan, dialogs>>
    /\ Quiet

\* the edit with its error dropped, as that of the notice of main.go:382 is:
\* the handler goes on to the notice and the response of success
handleChangeAssignee_371Unchecked(h, editOk) ==
    /\ Running
    /\ At(h, "handleChangeAssignee", 371)
    /\ IF editOk /\ IsChannel(h.ch)
          /\ Position(chan[h.ch].messages, h.msg.id) # 0
       THEN chan' = [chan EXCEPT
                   ![h.ch].messages = ChannelMessageEdit(@, h.msg.id, h.msg),
                   ![h.ch].assigned = h.user]
       ELSE UNCHANGED chan
    /\ Continue(h, [h EXCEPT !.pc = 382, !.msg = NoMessage])
    /\ last' = Call(h.ch)
    /\ UNCHANGED dialogs
    /\ Quiet

\* main.go:370-381 ChannelMessageEditComplex: the embeds and the components
\* of the message found are replaced by the handler's copy
handleChangeAssignee_371(h, editOk) ==
    /\ Running
    /\ At(h, "handleChangeAssignee", 371)
    /\ IF editOk /\ IsChannel(h.ch)
          /\ Position(chan[h.ch].messages, h.msg.id) # 0
       THEN /\ chan' = [chan EXCEPT
                   ![h.ch].messages = ChannelMessageEdit(@, h.msg.id, h.msg),
                   ![h.ch].assigned = h.user]
            /\ Continue(h, [h EXCEPT !.pc = 382, !.msg = NoMessage])
            /\ last' = Call(h.ch)
       ELSE /\ UNCHANGED chan
            /\ Return(h)
            /\ last' = Event("handleChangeAssignee", h.ch, "EditFailed")
    /\ UNCHANGED dialogs
    /\ Quiet

\* main.go:382-387 ChannelMessageSendEmbed: the notice naming the target as
\* the assignee, its result discarded, and the response of success, which
\* only the executor is shown
handleChangeAssignee_382(h, ok) ==
    /\ Running
    /\ At(h, "handleChangeAssignee", 382)
    /\ Return(h)
    /\ IF ok /\ IsChannel(h.ch)
       THEN /\ CanPost(h.ch)
            /\ chan' = [chan EXCEPT ![h.ch].messages =
                          ChannelMessageSend(@, plain(1))]
       ELSE UNCHANGED chan
    /\ last' = Event("handleChangeAssignee", h.ch, "AssigneeChanged")
    /\ UNCHANGED dialogs
    /\ Quiet

\* main.go:390-392: the reopen button of an admin panel: the response, which
\* leaves the panel as it is, and the channel is read
handleReopenTicket_392(h, readOk) ==
    /\ Running
    /\ At(h, "reopen_ticket", 392)
    /\ IF ~(readOk /\ IsChannel(h.ch))
       THEN nilChannel("reopen_ticket", h.ch)
       ELSE /\ Continue(h, [h EXCEPT !.pc = 393,
                               !.user = getUserIDFromTopic(chan[h.ch].topic)])
            /\ last' = Call(h.ch)
            /\ UNCHANGED <<chan, dialogs>>
            /\ Quiet

\* main.go:393-403 ChannelEditComplex: the channel is moved to the open area
\* (a failure is logged), then the owner is taken from the topic read
handleReopenTicket_393(h, moveOk) ==
    /\ Running
    /\ At(h, "reopen_ticket", 393)
    /\ chan' = IF moveOk /\ IsChannel(h.ch)
               THEN [chan EXCEPT ![h.ch].parent = openTicketsCategoryID]
               ELSE chan
    /\ IF h.user = ""
       THEN /\ Return(h)
            /\ last' = Event("reopen_ticket", h.ch, "NoOwner")
       ELSE /\ Goto(h, 404)
            /\ last' = Call(h.ch)
    /\ UNCHANGED dialogs
    /\ Quiet

\* main.go:404 the owner's overwrite is replaced: the view allowed, nothing
\* denied
handleReopenTicket_overwrites(overwrites, userID) ==
    ChannelPermissionSet(overwrites, userID, "member", {View}, {})

\* main.go:404 ChannelPermissionSet, its result discarded
handleReopenTicket_404(h, ok) ==
    /\ Running
    /\ At(h, "reopen_ticket", 404)
    /\ Goto(h, 405)
    /\ IF ok /\ IsChannel(h.ch)
       THEN chan' = [chan EXCEPT ![h.ch].overwrites =
                        handleReopenTicket_overwrites(@, h.user)]
       ELSE UNCHANGED chan
    /\ last' = Call(h.ch)
    /\ UNCHANGED dialogs
    /\ Quiet

\* main.go:405 ChannelMessageDelete of the admin panel pressed, its result
\* discarded
handleReopenTicket_405(h, ok) ==
    /\ Running
    /\ At(h, "reopen_ticket", 405)
    /\ Continue(h, [h EXCEPT !.pc = 406, !.msg = NoMessage])
    /\ IF ok /\ IsChannel(h.ch)
          /\ Position(chan[h.ch].messages, h.msg.id) # 0
       THEN chan' = [chan EXCEPT ![h.ch].messages =
                        ChannelMessageDelete(@, h.msg.id)]
       ELSE UNCHANGED chan
    /\ last' = Call(h.ch)
    /\ UNCHANGED dialogs
    /\ Quiet

\* main.go:406 ChannelMessageSendEmbed: the notice of the reopening, its
\* result discarded; the handler returns
handleReopenTicket_406(h, ok) ==
    /\ Running
    /\ At(h, "reopen_ticket", 406)
    /\ Return(h)
    /\ IF ok /\ IsChannel(h.ch)
       THEN /\ CanPost(h.ch)
            /\ chan' = [chan EXCEPT ![h.ch].messages =
                          ChannelMessageSend(@, plain(1))]
            /\ last' = Event("reopen_ticket", h.ch, "Reopened")
       ELSE /\ UNCHANGED chan
            /\ last' = Event("reopen_ticket", h.ch, "Failed")
    /\ UNCHANGED dialogs
    /\ Quiet

\* main.go:235-237: the delete button of an admin panel: the response, which
\* is a message in the channel, then the handler sleeps
delete_ticket_permanent(h, ok) ==
    /\ Running
    /\ At(h, "delete_ticket_permanent", 236)
    /\ Goto(h, 238)
    /\ IF ok /\ IsChannel(h.ch)
       THEN /\ CanPost(h.ch)
            /\ chan' = [chan EXCEPT ![h.ch].messages =
                          ChannelMessageSend(@, plain(1))]
            /\ last' = Event("delete_ticket_permanent", h.ch, "DeleteIn5s")
       ELSE /\ UNCHANGED chan
            /\ last' = Event("delete_ticket_permanent", h.ch, "Failed")
    /\ UNCHANGED dialogs
    /\ Quiet

\* main.go:238: the sleep is over and the channel is removed, with its
\* messages and confirmations; the result of the call is discarded
ChannelDelete(d, ok) ==
    /\ Running
    /\ At(d, "delete_ticket_permanent", 238)
    /\ Return(d)
    /\ IF ok /\ IsChannel(d.ch)
       THEN /\ chan' = [chan EXCEPT ![d.ch] = Deleted]
            /\ dialogs' = [dialogs EXCEPT ![d.ch] = {}]
            /\ last' = Event("ChannelDelete", d.ch, "Removed")
       ELSE /\ UNCHANGED <<chan, dialogs>>
            /\ last' = Event("ChannelDelete", d.ch, "Failed")
    /\ Quiet

\* main.go:450, 478, 501, 536: the response after the overwrite was set or
\* deleted, which is a message in the channel; its result is discarded
respondInChannel(h, op, pc, resp, ok) ==
    /\ Running
    /\ At(h, op, pc)
    /\ Return(h)
    /\ IF ok /\ IsChannel(h.ch)
       THEN /\ CanPost(h.ch)
            /\ chan' = [chan EXCEPT ![h.ch].messages =
                          ChannelMessageSend(@, plain(1))]
            /\ last' = Event(op, h.ch, resp)
       ELSE /\ UNCHANGED chan
            /\ last' = Event(op, h.ch, "Failed")
    /\ UNCHANGED dialogs
    /\ Quiet

\* the test of addRoleToTicket (main.go:465) in the place of the command's
\* own: the overwrite is looked for among the role overwrites
addUserToTicket_foundRoleTest(overwrites, user) ==
    overwrites[user].type = "role" /\ (overwrites[user].allow \cap {View}) = {View}

\* main.go:436-443: the user has a member overwrite that allows the view
addUserToTicket_found(overwrites, user) ==
    overwrites[user].type = "member" /\ (overwrites[user].allow \cap {View}) = {View}

\* main.go:429-443: the add-user command: the channel is read; a failed read
\* is logged and the handler returns without a response
addUserToTicket_431(h, readOk) ==
    /\ Running
    /\ At(h, "addUserToTicket", 431)
    /\ IF ~(readOk /\ IsChannel(h.ch))
       THEN /\ Return(h)
            /\ last' = Event("addUserToTicket", h.ch, "none")
       ELSE IF addUserToTicket_found(chan[h.ch].overwrites, h.user)
       THEN /\ Return(h)
            /\ last' = Event("addUserToTicket", h.ch, "AlreadyAdded")
       ELSE /\ Continue(h, [h EXCEPT !.pc = 444, !.member = ""])
            /\ last' = Call(h.ch)
    /\ UNCHANGED <<chan, dialogs>>
    /\ Quiet

\* main.go:444-449 ChannelPermissionSet; after a failure the handler
\* responds and returns
addUserToTicket_444(h, ok) ==
    /\ Running
    /\ At(h, "addUserToTicket", 444)
    /\ IF ok /\ IsChannel(h.ch)
       THEN /\ chan' = [chan EXCEPT ![h.ch].overwrites =
                 ChannelPermissionSet(@, h.user, "member", {View, Send}, {})]
            /\ Goto(h, 450)
            /\ last' = Call(h.ch)
       ELSE /\ UNCHANGED chan
            /\ Return(h)
            /\ last' = Event("addUserToTicket", h.ch, "AddFailed")
    /\ UNCHANGED dialogs
    /\ Quiet

\* main.go:450 the response that the user was added
addUserToTicket_450(h, ok) ==
    respondInChannel(h, "addUserToTicket", 450, "UserAdded", ok)

\* main.go:464-471: the role has a role overwrite that allows the view
addRoleToTicket_found(overwrites, role) ==
    overwrites[role].type = "role" /\ (overwrites[role].allow \cap {View}) = {View}

\* main.go:453-471: the add-role command: the channel is read; a failed read
\* is logged and the handler returns without a response
addRoleToTicket_455(h, readOk) ==
    /\ Running
    /\ At(h, "addRoleToTicket", 455)
    /\ IF ~(readOk /\ IsChannel(h.ch))
       THEN /\ Return(h)
            /\ last' = Event("addRoleToTicket", h.ch, "none")
       ELSE IF chan[h.ch].topic = <<>>
       THEN /\ Return(h)
            /\ last' = Event("addRoleToTicket", h.ch, "NotTicketChannel")
       ELSE IF addRoleToTicket_found(chan[h.ch].overwrites, h.user)
       THEN /\ Return(h)
            /\ last' = Event("addRoleToTicket", h.ch, "AlreadyAdded")
       ELSE /\ Continue(h, [h EXCEPT !.pc = 472, !.member = ""])
            /\ last' = Call(h.ch)
    /\ UNCHANGED <<chan, dialogs>>
    /\ Quiet

\* main.go:472-477 ChannelPermissionSet; after a failure the handler
\* responds and returns
addRoleToTicket_472(h, ok) ==
    /\ Running
    /\ At(h, "addRoleToTicket", 472)
    /\ IF ok /\ IsChannel(h.ch)
       THEN /\ chan' = [chan EXCEPT ![h.ch].overwrites =
                 ChannelPermissionSet(@, h.user, "role", {View, Send}, {})]
            /\ Goto(h, 478)
            /\ last' = Call(h.ch)
       ELSE /\ UNCHANGED chan
            /\ Return(h)
            /\ last' = Event("addRoleToTicket", h.ch, "AddFailed")
    /\ UNCHANGED dialogs
    /\ Quiet

\* main.go:478 the response that the role was added
addRoleToTicket_478(h, ok) ==
    respondInChannel(h, "addRoleToTicket", 478, "RoleAdded", ok)

\* main.go:493-500: the remove-user command: ChannelPermissionDelete; after
\* a failure the handler responds and returns
removeUserFromTicket_495(h, ok) ==
    /\ Running
    /\ At(h, "removeUserFromTicket", 495)
    /\ IF ok /\ IsChannel(h.ch)
       THEN /\ chan' = [chan EXCEPT ![h.ch].overwrites =
                          ChannelPermissionDelete(@, h.user)]
            /\ Continue(h, [h EXCEPT !.pc = 501, !.member = ""])
            /\ last' = Call(h.ch)
       ELSE /\ UNCHANGED chan
            /\ Return(h)
            /\ last' = Event("removeUserFromTicket", h.ch, "RemoveFailed")
    /\ UNCHANGED dialogs
    /\ Quiet

\* main.go:501 the response that the user was removed
removeUserFromTicket_501(h, ok) ==
    respondInChannel(h, "removeUserFromTicket", 501, "UserRemoved", ok)

\* main.go:504-529: the remove-role command: the channel is read; a failed
\* read is logged and the handler returns without a response
removeRoleFromTicket_506(h, readOk) ==
    /\ Running
    /\ At(h, "removeRoleFromTicket", 506)
    /\ IF ~(readOk /\ IsChannel(h.ch))
       THEN /\ Return(h)
            /\ last' = Event("removeRoleFromTicket", h.ch, "none")
       ELSE IF chan[h.ch].topic = <<>>
       THEN /\ Return(h)
            /\ last' = Event("removeRoleFromTicket", h.ch, "NotTicketChannel")
       ELSE IF isConfiguredSupportRole(h.user)
       THEN /\ Return(h)
            /\ last' = Event("removeRoleFromTicket", h.ch, "CannotRemove")
       ELSE IF chan[h.ch].overwrites[h.user].type # "role"
       THEN /\ Return(h)
            /\ last' = Event("removeRoleFromTicket", h.ch, "RoleNotFound")
       ELSE /\ Continue(h, [h EXCEPT !.pc = 530, !.member = ""])
            /\ last' = Call(h.ch)
    /\ UNCHANGED <<chan, dialogs>>
    /\ Quiet

\* main.go:530-535 ChannelPermissionDelete; after a failure the handler
\* responds and returns
removeRoleFromTicket_530(h, ok) ==
    /\ Running
    /\ At(h, "removeRoleFromTicket", 530)
    /\ IF ok /\ IsChannel(h.ch)
       THEN /\ chan' = [chan EXCEPT ![h.ch].overwrites =
                          ChannelPermissionDelete(@, h.user)]
            /\ Goto(h, 536)
            /\ last' = Call(h.ch)
       ELSE /\ UNCHANGED chan
            /\ Return(h)
            /\ last' = Event("removeRoleFromTicket", h.ch, "RemoveFailed")
    /\ UNCHANGED dialogs
    /\ Quiet

\* main.go:536 the response that the role was removed
removeRoleFromTicket_536(h, ok) ==
    respondInChannel(h, "removeRoleFromTicket", 536, "RoleRemoved", ok)

(* --------------------------- specifications --------------------------- *)

Init ==
    /\ counters = [c \in ticketOptions |-> 0]
    /\ issued = [c \in ticketOptions |-> <<>>]
    /\ started = 0
    /\ waiting = {}
    /\ creating = {}
    /\ chan = [t \in ChannelIDs |-> NoChannel]
    /\ dialogs = [t \in ChannelIDs |-> {}]
    /\ handlers = EmptyBag
    /\ archive = {}
    /\ last = Event("none", 0, "none")

\* the outcomes of a call of the platform: it succeeds or it fails
Calls == BOOLEAN
\* the histories in which the calls concerned succeed
Succeed == {TRUE}

\* main.go:222-223 a category is selected in the menu of the ticket panel,
\* by one of the members, limit creates in all
SelectTopic(members, topicValues, limit) ==
    \E member \in members, topicValue \in topicValues, ok, applied \in BOOLEAN :
        /\ createTicketChannel_alloc(member, topicValue, limit, ok, applied)
        /\ UNCHANGED waiting

CreateChannel ==
    \E p \in creating, ok \in BOOLEAN : createTicketChannel_create(p, ok)

SendTicketMessage(calls) ==
    \E p \in creating, ok \in calls : createTicketChannel_165(p, ok)

MembersPost ==
    \E t \in ChannelIDs, member \in Users : PostMessages(t, member)

\* main.go:204-205, 224-225, 420-427: the calls of a close request
CloseRequestCalls(reads) ==
    \/ \E h \in BagToSet(handlers), ok \in reads : closeTicket_421(h, ok)
    \/ \E h \in BagToSet(handlers), ok \in Calls : handleCloseRequest(h, ok)

\* main.go:250-268: the calls of a confirm-close handler; reads: the
\* outcomes of s.Channel, sets: of ChannelPermissionSet, moves: of
\* ChannelEditComplex, sends: of ChannelMessageSendComplex
ConfirmCloseCalls(reads, sets, moves, sends) ==
    \/ \E h \in BagToSet(handlers), ok \in Calls : handleConfirmClose_251(h, ok)
    \/ \E h \in BagToSet(handlers), ok \in reads : handleConfirmClose_252(h, ok)
    \/ \E h \in BagToSet(handlers), ok \in sets : handleConfirmClose_258(h, ok)
    \/ \E h \in BagToSet(handlers), ok \in moves : handleConfirmClose_259(h, ok)
    \/ \E h \in BagToSet(handlers), ok \in sends : handleConfirmClose_266(h, ok)
    \/ \E h \in BagToSet(handlers), ok \in Calls : handleConfirmClose_267(h, ok)

\* main.go:270-294: the calls of a claim handler
ClaimCalls(responses, notices) ==
    \/ \E h \in BagToSet(handlers), ok \in responses : handleClaimTicket(h, ok)
    \/ \E h \in BagToSet(handlers), ok \in notices : handleClaimTicket_293(h, ok)

\* main.go:296-388: the calls of an assignee command; reads: the outcomes
\* of s.Channel, fetches: of ChannelMessages, edits: of
\* ChannelMessageEditComplex, sends: of ChannelMessageSendEmbed
ChangeAssigneeCalls(reads, fetches, edits, sends) ==
    \/ \E h \in BagToSet(handlers), ok \in reads : handleChangeAssignee_299(h, ok)
    \/ \E h \in BagToSet(handlers), ok \in fetches : handleChangeAssignee_305(h, ok)
    \/ \E h \in BagToSet(handlers), ok \in edits : handleChangeAssignee_371(h, ok)
    \/ \E h \in BagToSet(handlers), ok \in sends : handleChangeAssignee_382(h, ok)

\* main.go:390-407: the calls of a reopen handler; reads: the outcomes of
\* s.Channel, moves: of ChannelEditComplex, sets: of ChannelPermissionSet,
\* others: of ChannelMessageDelete and ChannelMessageSendEmbed
ReopenTicketCalls(reads, moves, sets, others) ==
    \/ \E h \in BagToSet(handlers), ok \in reads : handleReopenTicket_392(h, ok)
    \/ \E h \in BagToSet(handlers), ok \in moves : handleReopenTicket_393(h, ok)
    \/ \E h \in BagToSet(handlers), ok \in sets : handleReopenTicket_404(h, ok)
    \/ \E h \in BagToSet(handlers), ok \in others : handleReopenTicket_405(h, ok)
    \/ \E h \in BagToSet(handlers), ok \in others : handleReopenTicket_406(h, ok)

\* main.go:235-238: the calls of a delete handler
DeleteCalls(calls) ==
    \/ \E h \in BagToSet(handlers), ok \in calls : delete_ticket_permanent(h, ok)
    \/ \E h \in BagToSet(handlers), ok \in calls : ChannelDelete(h, ok)

\* main.go:429-451: the calls of an add-user command
AddUserCalls(reads, sets) ==
    \/ \E h \in BagToSet(handlers), ok \in reads : addUserToTicket_431(h, ok)
    \/ \E h \in BagToSet(handlers), ok \in sets : addUserToTicket_444(h, ok)
    \/ \E h \in BagToSet(handlers), ok \in Calls : addUserToTicket_450(h, ok)

\* main.go:453-479: the calls of an add-role command
AddRoleCalls(reads, sets) ==
    \/ \E h \in BagToSet(handlers), ok \in reads : addRoleToTicket_455(h, ok)
    \/ \E h \in BagToSet(handlers), ok \in sets : addRoleToTicket_472(h, ok)
    \/ \E h \in BagToSet(handlers), ok \in Calls : addRoleToTicket_478(h, ok)

\* main.go:493-502: the calls of a remove-user command
RemoveUserCalls(deletes) ==
    \/ \E h \in BagToSet(handlers), ok \in deletes : removeUserFromTicket_495(h, ok)
    \/ \E h \in BagToSet(handlers), ok \in Calls : removeUserFromTicket_501(h, ok)

\* main.go:504-537: the calls of a remove-role command
RemoveRoleCalls(reads, deletes) ==
    \/ \E h \in BagToSet(handlers), ok \in reads : removeRoleFromTicket_506(h, ok)
    \/ \E h \in BagToSet(handlers), ok \in deletes : removeRoleFromTicket_530(h, ok)
    \/ \E h \in BagToSet(handlers), ok \in Calls : removeRoleFromTicket_536(h, ok)

Next ==
    \/ SelectTopic({"u1"}, {"General", "Corruption"}, 1)
    \/ CreateChannel
    \/ SendTicketMessage(Calls)
    \/ MembersPost
    \/ handleSlashCommands({"sendTicketPanel", "closeTicket", "addUserToTicket",
                            "removeUserFromTicket", "addRoleToTicket",
                            "removeRoleFromTicket", "handleChangeAssignee"}, Subjects)
    \/ handleMessageComponent({"close_ticket_request", "confirm_close_ticket",
                               "cancel_close_ticket", "claim_ticket",
                               "reopen_ticket", "delete_ticket_permanent"},
                              MaxPanels)
    \/ \E h \in BagToSet(handlers), ok \in Calls : sendTicketPanel(h, ok)
    \/ CloseRequestCalls(Calls)
    \/ \E h \in BagToSet(handlers), ok \in Calls : cancel_close_ticket(h, ok)
    \/ ConfirmCloseCalls(Calls, Calls, Calls, Calls)
    \/ ClaimCalls(Calls, Calls)
    \/ ChangeAssigneeCalls(Calls, Calls, Calls, Calls)
    \/ ReopenTicketCalls(Calls, Calls, Calls, Calls)
    \/ DeleteCalls(Calls)
    \/ AddUserCalls(Calls, Calls)
    \/ AddRoleCalls(Calls, Calls)
    \/ RemoveUserCalls(Calls)
    \/ RemoveRoleCalls(Calls, Calls)

\* every handler, on one ticket from its creation to its removal; the
\* specifications below keep the handlers one group of properties is about
Spec == Init /\ [][Next]_vars

(* ------------------------- creating the tickets ----------------------- *)

\* concurrent ticket creation, up to the creation of the channels; the
\* categories are one with the default support role and the one with a role
\* of its own (Legal is configured as General is, main.go:53-57)
NextCreate ==
    \/ SelectTopic({"u1", "u2"}, {"General", "Corruption"}, MaxCreates)
    \/ CreateChannel

SpecCreate == Init /\ [][NextCreate]_vars

\* ticket numbers of one to five digits: the counter collection outlives
\* the process (main.go:85), so the handlers may find any stored value
InitStored ==
    /\ \E base \in {0, 8, 98, 998, 9998} :
          counters = [c \in ticketOptions |-> base]
    /\ issued = [c \in ticketOptions |-> <<>>]
    /\ started = 0
    /\ waiting = {}
    /\ creating = {}
    /\ chan = [t \in ChannelIDs |-> NoChannel]
    /\ dialogs = [t \in ChannelIDs |-> {}]
    /\ handlers = EmptyBag
    /\ archive = {}
    /\ last = Event("none", 0, "none")

\* ticket creation to its end, on stored counters
NextNumber ==
    \/ SelectTopic({"u1", "u2"}, {"General", "Corruption"}, MaxNumbered)
    \/ CreateChannel
    \/ SendTicketMessage(Calls)

SpecNumber == InitStored /\ [][NextNumber]_vars

\* the creates whose call of the store is a step of its own: the request is
\* sent, the store answers or does not, the handler goes on
NextStore ==
    \/ \E member \in {"u1", "u2"}, topicValue \in ticketOptions :
          getNextSequenceValue_send(member, topicValue, MaxNumbered)
    \/ \E w \in waiting, ok, applied \in BOOLEAN :
          getNextSequenceValue_answer(w, MaxNumbered, ok, applied)
    \/ CreateChannel

\* The handlers are goroutines the runtime keeps scheduling and the calls of
\* the platform are bounded by the client of discordgo, so a handler that
\* can go on does; whether and when the store answers is not the program's.
SpecStore == Init /\ [][NextStore]_vars /\ WF_vars(CreateChannel)

(* ------------------------- the created ticket ------------------------- *)

\* a ticket u1 has opened, in a category with the default support role or in
\* the one with a role of its own: the state createTicketChannel leaves
\* (main.go:118-166)
InitTicket ==
    /\ \E c \in {"General", "Corruption"} :
          /\ counters = [k \in ticketOptions |-> IF k = c THEN 1 ELSE 0]
          /\ issued = [k \in ticketOptions |-> IF k = c THEN <<1>> ELSE <<>>]
          /\ chan = [t \in ChannelIDs |->
                IF t = 1
                THEN [status |-> "live",
                      name |-> <<c, "-">> \o ticketNumber(1),
                      topic |-> topicOf("u1", c, ticketNumber(1)),
                      parent |-> openTicketsCategoryID,
                      overwrites |-> initialOverwrites("u1", supportRoleFor(c)),
                      messages |-> <<ticketMessage(1)>>,
                      assigned |-> "", claimNotices |-> {}]
                ELSE NoChannel]
    /\ started = 1
    /\ waiting = {}
    /\ creating = {}
    /\ dialogs = [t \in ChannelIDs |-> {}]
    /\ handlers = EmptyBag
    /\ archive = {}
    /\ last = Event("none", 0, "none")

\* no interaction is being handled (a handler in the sleep of main.go:237
\* aside)
Idle == InFlight = 0

\* no interaction of these kinds is being handled
Alone(ops) == HandlersAmong({h \in BagToSet(handlers) : h.op \in ops}) = 0

\* the claim button, pressed by several members at once
NextClaim ==
    \/ handleMessageComponent({"claim_ticket"}, MaxPanels)
    \/ ClaimCalls(Calls, Calls)

SpecClaim == InitTicket /\ [][NextClaim]_vars

\* closing a ticket: a close request (button or command) and the cancel of
\* a confirmation come when no other interaction is being handled; the
\* confirm button is pressed and the add-user command is run, with the
\* ticket's owner as the user, at any time, also while other handlers have
\* calls left; the calls of the confirm-close and the calls on the channel of
\* the add-user command succeed
NextClose ==
    \/ /\ Idle
       /\ \/ handleSlashCommands({"closeTicket"}, Subjects)
          \/ handleMessageComponent({"close_ticket_request",
                                     "cancel_close_ticket"}, MaxPanels)
    \/ CloseRequestCalls(Calls)
    \/ \E h \in BagToSet(handlers), ok \in Calls : cancel_close_ticket(h, ok)
    \/ handleMessageComponent({"confirm_close_ticket"}, MaxPanels)
    \/ ConfirmCloseCalls(Succeed, Succeed, Succeed, Succeed)
    \/ handleSlashCommands({"addUserToTicket"}, {"u1"})
    \/ AddUserCalls(Succeed, Calls)

SpecClose == InitTicket /\ [][NextClose]_vars

\* channel visibility and the ticket's way from Open to Deleted: one button
\* at a time, and one participant command, which may be run while the
\* handler of a button has calls left
NextAccess ==
    \/ /\ Alone({"addUserToTicket", "removeUserFromTicket"})
       /\ handleSlashCommands({"addUserToTicket", "removeUserFromTicket"}, Subjects)
    \/ /\ Idle
       /\ handleMessageComponent({"close_ticket_request",
                                  "confirm_close_ticket", "reopen_ticket",
                                  "delete_ticket_permanent"}, MaxPanels)
    \/ \E h \in BagToSet(handlers), ok \in Succeed : handleCloseRequest(h, ok)
    \/ ConfirmCloseCalls(Succeed, Succeed, Succeed, Succeed)
    \/ ReopenTicketCalls(Succeed, Succeed, Succeed, Succeed)
    \/ DeleteCalls(Succeed)
    \/ AddUserCalls(Succeed, Succeed)
    \/ RemoveUserCalls(Succeed)

SpecAccess == InitTicket /\ [][NextAccess]_vars

\* the assignee over claim, transfer, close and reopen, one interaction at
\* a time; the notices may fail to be sent
NextAssignee ==
    \/ Idle /\ handleSlashCommands({"addUserToTicket", "handleChangeAssignee"}, Subjects)
    \/ Idle /\ handleMessageComponent({"close_ticket_request",
                                       "confirm_close_ticket", "claim_ticket",
                                       "reopen_ticket"}, MaxPanels)
    \/ \E h \in BagToSet(handlers), ok \in Succeed : handleCloseRequest(h, ok)
    \/ ConfirmCloseCalls(Succeed, Succeed, Succeed, Succeed)
    \/ ClaimCalls(Succeed, Calls)
    \/ ReopenTicketCalls(Succeed, Succeed, Succeed, Calls)
    \/ AddUserCalls(Succeed, Succeed)
    \/ ChangeAssigneeCalls(Succeed, Succeed, Succeed, Calls)

SpecAssignee == InitTicket /\ [][NextAssignee]_vars

\* the message a transfer finds among the newest of the channel
NextScan ==
    \/ Idle /\ handleSlashCommands({"sendTicketPanel", "handleChangeAssignee"}, Subjects)
    \/ Idle /\ handleMessageComponent({"claim_ticket"}, MaxPanels)
    \/ MembersPost
    \/ \E h \in BagToSet(handlers), ok \in Calls : sendTicketPanel(h, ok)
    \/ ClaimCalls(Succeed, Succeed)
    \/ ChangeAssigneeCalls(Succeed, Succeed, Succeed, Succeed)

SpecScan == InitTicket /\ [][NextScan]_vars

\* one transfer at a time, to users with and without an overwrite of their
\* own, while participants are added and removed, one command at a time
NextTransfer ==
    \/ /\ Alone({"addUserToTicket", "removeUserFromTicket"})
       /\ handleSlashCommands({"addUserToTicket", "removeUserFromTicket"}, Subjects)
    \/ /\ Alone({"handleChangeAssignee"})
       /\ handleSlashCommands({"handleChangeAssignee"}, Subjects)
    \/ AddUserCalls(Succeed, Succeed)
    \/ RemoveUserCalls(Succeed)
    \/ ChangeAssigneeCalls(Calls, Calls, Calls, Calls)

SpecTransfer == InitTicket /\ [][NextTransfer]_vars

\* the role commands: an add and a remove at a time
NextRoles ==
    \/ Alone({"addRoleToTicket"}) /\ handleSlashCommands({"addRoleToTicket"}, Subjects)
    \/ /\ Alone({"removeRoleFromTicket"})
       /\ handleSlashCommands({"removeRoleFromTicket"}, Subjects)
    \/ AddRoleCalls(Calls, Calls)
    \/ RemoveRoleCalls(Calls, Calls)

SpecRoles == InitTicket /\ [][NextRoles]_vars

\* the commands that add participants, a user and a role at a time, the
\* channel read; the calls that set the overwrites succeed or fail
NextAdd ==
    \/ Alone({"addUserToTicket"}) /\ handleSlashCommands({"addUserToTicket"}, Subjects)
    \/ Alone({"addRoleToTicket"}) /\ handleSlashCommands({"addRoleToTicket"}, Subjects)
    \/ AddUserCalls(Succeed, Calls)
    \/ AddRoleCalls(Succeed, Calls)

SpecAdd == InitTicket /\ [][NextAdd]_vars

\* the commands that add and remove participants, one at a time
NextParticipants ==
    \/ /\ Idle
       /\ handleSlashCommands({"addUserToTicket", "removeUserFromTicket",
                               "addRoleToTicket", "removeRoleFromTicket"}, Subjects)
    \/ AddUserCalls(Calls, Calls)
    \/ RemoveUserCalls(Calls)
    \/ AddRoleCalls(Calls, Calls)
    \/ RemoveRoleCalls(Calls, Calls)

SpecParticipants == InitTicket /\ [][NextParticipants]_vars

\* the removal of a ticket while its handlers have calls left.  The buttons
\* are pressed and the close command is run one at a time, the handlers in
\* the sleep of main.go:237 aside; the commands that add, remove and transfer
\* are run during that sleep, with one user and one role.  ChannelDelete
\* comes between any two calls of the handler under way, and the delete
\* button is pressed again while a delete handler sleeps.  A ticket is
\* closed once.
NextRemoval ==
    \/ /\ Idle
       /\ \/ handleSlashCommands({"closeTicket"}, Subjects)
          \/ handleMessageComponent({"close_ticket_request",
                                     "confirm_close_ticket",
                                     "cancel_close_ticket", "claim_ticket",
                                     "reopen_ticket",
                                     "delete_ticket_permanent"}, 1)
    \/ /\ Idle
       /\ ~Alone({"delete_ticket_permanent"})
       /\ handleSlashCommands({"addUserToTicket", "removeUserFromTicket",
                               "addRoleToTicket", "removeRoleFromTicket",
                               "handleChangeAssignee"},
                              {"u3", "role_other"})
    \/ CloseRequestCalls(Succeed)
    \/ \E h \in BagToSet(handlers), ok \in Succeed : cancel_close_ticket(h, ok)
    \/ ConfirmCloseCalls(Succeed, Succeed, Succeed, Succeed)
    \/ ClaimCalls(Succeed, Succeed)
    \/ ChangeAssigneeCalls(Succeed, Succeed, Succeed, Succeed)
    \/ ReopenTicketCalls(Succeed, Succeed, Succeed, Succeed)
    \/ DeleteCalls(Succeed)
    \/ AddUserCalls(Succeed, Succeed)
    \/ AddRoleCalls(Succeed, Succeed)
    \/ RemoveUserCalls(Succeed)
    \/ RemoveRoleCalls(Succeed, Succeed)

SpecRemoval == InitTicket /\ [][NextRemoval]_vars

\* close and reopen when the platform may refuse to move the channel
NextMoves ==
    \/ /\ Idle
       /\ handleMessageComponent({"close_ticket_request",
                                  "confirm_close_ticket", "reopen_ticket"},
                                 MaxPanels)
    \/ \E h \in BagToSet(handlers), ok \in Succeed : handleCloseRequest(h, ok)
    \/ ConfirmCloseCalls(Succeed, Succeed, Calls, Succeed)
    \/ ReopenTicketCalls(Succeed, Calls, Succeed, Succeed)

SpecMoves == InitTicket /\ [][NextMoves]_vars

(* ---------------------- closing a ticket repeatedly ------------------- *)

\* the confirm button is pressed also on a ticket that holds an admin panel
NextPanels ==
    \/ /\ Idle
       /\ handleMessageComponent({"close_ticket_request",
                                  "confirm_close_ticket", "cancel_close_ticket",
                                  "reopen_ticket"}, MaxPanelsPerTicket)
    \/ \E h \in BagToSet(handlers), ok \in Succeed : handleCloseRequest(h, ok)
    \/ \E h \in BagToSet(handlers), ok \in Succeed : cancel_close_ticket(h, ok)
    \/ ConfirmCloseCalls(Succeed, Succeed, Succeed, Succeed)
    \/ ReopenTicketCalls(Succeed, Succeed, Succeed, Succeed)

SpecPanels == InitTicket /\ [][NextPanels]_vars

(* ------------------- commands outside a ticket channel ---------------- *)

\* main.go:172-188: the commands are registered for the guild, so a member
\* can run them in any channel, also in one the bot did not create: such a
\* channel has no topic or a topic of its own, and no overwrites
PlainTopics == {<<>>, <<"Welcome">>}

InitPlain ==
    /\ counters = [c \in ticketOptions |-> 0]
    /\ issued = [c \in ticketOptions |-> <<>>]
    /\ started = 0
    /\ waiting = {}
    /\ creating = {}
    /\ \E topic \in PlainTopics :
          chan = [t \in ChannelIDs |->
                     IF t = 1
                     THEN [status |-> "live", name |-> <<"lobby">>,
                           topic |-> topic, parent |-> None,
                           overwrites |-> NoOverwrites, messages |-> <<>>,
                           assigned |-> "", claimNotices |-> {}]
                     ELSE NoChannel]
    /\ dialogs = [t \in ChannelIDs |-> {}]
    /\ handlers = EmptyBag
    /\ archive = {}
    /\ last = Event("none", 0, "none")

NextPlain ==
    \/ Idle /\ handleSlashCommands({"closeTicket", "addUserToTicket",
                                    "removeUserFromTicket", "addRoleToTicket",
                                    "removeRoleFromTicket",
                                    "handleChangeAssignee"}, Subjects)
    \/ CloseRequestCalls(Calls)
    \/ AddUserCalls(Calls, Calls)
    \/ RemoveUserCalls(Calls)
    \/ AddRoleCalls(Calls, Calls)
    \/ RemoveRoleCalls(Calls, Calls)
    \/ \E h \in BagToSet(handlers), ok \in Calls : handleChangeAssignee_299(h, ok)

SpecPlain == InitPlain /\ [][NextPlain]_vars

(* ------------------------ the owner in the topic ---------------------- *)

\* the handlers that edit the channel, one interaction at a time
NextTopic ==
    \/ SelectTopic(Users, ticketOptions, 1)
    \/ CreateChannel
    \/ SendTicketMessage(Succeed)
    \/ Idle /\ handleSlashCommands({"closeTicket"}, Subjects)
    \/ Idle /\ handleMessageComponent({"confirm_close_ticket", "reopen_ticket"},
                                      MaxPanels)
    \/ CloseRequestCalls(Succeed)
    \/ ConfirmCloseCalls(Succeed, Succeed, Succeed, Succeed)
    \/ ReopenTicketCalls(Succeed, Succeed, Succeed, Succeed)

SpecTopic == InitStored /\ [][NextTopic]_vars

(* ------------------------------ properties ----------------------------- *)

\* C1: the values getNextSequenceValue hands out for one category are
\* pairwise distinct, whatever the interleaving of the creating handlers: no
\* two returned values, no two handlers in flight and no two channels of a
\* category share a number.
C1_SequenceValuesDistinct ==
    /\ \A c \in ticketOptions : \A i, j \in DOMAIN issued[c] :
          i # j => issued[c][i] # issued[c][j]
    /\ \A p, q \in creating :
          (p # q /\ p.topicValue = q.topicValue) => p.nextSeq # q.nextSeq
    /\ \A t, u \in ChannelIDs :
          (t # u /\ IsChannel(t) /\ IsChannel(u)) => chan[t].name # chan[u].name

\* two handlers of one category hold their numbers at the same time
C1_Witness ==
    \E p, q \in creating : p # q /\ p.topicValue = q.topicValue

\* the number a sequence of decimal digits denotes
RECURSIVE DecimalValue(_)
DecimalValue(ds) ==
    IF ds = <<>> THEN 0
    ELSE 10 * DecimalValue(SubSeq(ds, 1, Len(ds) - 1))
         + (CHOOSE d \in 0..9 : DigitChar(d) = ds[Len(ds)])

\* C16: a create whose channel creation succeeds, for category C with the
\* allocated number n, gives a ticket in state Open, in the open area, named
\* C-<n in decimal, padded with zeros to four digits>, with exactly three
\* overwrites: everyone denied view, the owner allowed view and send, and
\* C's support role (the default one for an unmapped C) allowed view and send.
C16_CreatedTicket ==
    [][\A p \in creating :
          createTicketChannel_create(p, TRUE) =>
          LET t == last'.ch
              ch == chan'[t]
              digits == SubSeq(ch.name, 3, Len(ch.name))
              role == IF p.topicValue \in DOMAIN categorySupportRoles
                      THEN categorySupportRoles[p.topicValue]
                      ELSE defaultSupportRoleID
          IN /\ last'.resp = "ChannelCreated"
             /\ t \in ChannelIDs
             /\ ~IsChannel(t)
             /\ ch.status = "live"
             /\ ch.parent = openTicketsCategoryID
             /\ ch.parent # closedTicketsCategoryID
             /\ SubSeq(ch.name, 1, 2) = <<p.topicValue, "-">>
             /\ Len(digits) >= 4
             /\ Len(digits) > 4 => digits[1] # "0"
             /\ DecimalValue(digits) = p.nextSeq
             /\ {s \in Subjects : ch.overwrites[s] # NoOverwrite}
                   = {guildID, p.member, role}
             /\ ch.overwrites[guildID]
                   = [type |-> "role", allow |-> {}, deny |-> {View}]
             /\ ch.overwrites[p.member]
                   = [type |-> "member", allow |-> {View, Send}, deny |-> {}]
             /\ ch.overwrites[role]
                   = [type |-> "role", allow |-> {View, Send}, deny |-> {}]]_vars

\* the ticket with number 99 of the category with a support role of its own
\* was created
C16_Witness ==
    /\ last.resp = "ChannelCreated"
    /\ IsChannel(last.ch)
    /\ chan[last.ch].name = <<"Corruption", "-", "0", "0", "9", "9">>
    /\ View \in chan[last.ch].overwrites["role_corruption"].allow

\* C17: a successful getNextSequenceValue for C returns the stored value
\* plus one, 1 when no counter is stored for C, and leaves the value it
\* returned as the stored counter of C.
C17_NextSequenceValue ==
    [][\A member \in Users, topicValue \in ticketOptions, applied \in BOOLEAN :
          createTicketChannel_alloc(member, topicValue, MaxNumbered, TRUE, applied) =>
          LET returned == issued'[topicValue][Len(issued'[topicValue])]
          IN /\ Len(issued'[topicValue]) = Len(issued[topicValue]) + 1
             /\ returned = counters[topicValue] + 1
             /\ counters[topicValue] = 0 => returned = 1
             /\ counters'[topicValue] = returned]_vars

\* the first two calls for a category without counter returned 1 and 2
C17_Witness ==
    \E c \in ticketOptions : issued[c] = <<1, 2>> /\ counters[c] = 2

\* C18: within a category the numbers are issued in strictly increasing
\* order, so none is issued twice, also after a create that took a number
\* and then failed to create its channel; an allocation for one category
\* leaves the counters of the other categories as they are, and the rest of
\* a create leaves every counter as it is.
C18_NumbersIncreasePerCategory ==
    [][/\ \A c \in ticketOptions :
             \A i \in 1..(Len(issued'[c]) - 1) : issued'[c][i] < issued'[c][i + 1]
       /\ \A member \in Users, topicValue \in ticketOptions,
             ok \in BOOLEAN, applied \in BOOLEAN :
             createTicketChannel_alloc(member, topicValue, MaxCreates, ok, applied)
                 => \A c \in ticketOptions \ {topicValue} :
                        counters'[c] = counters[c]
       /\ \A p \in creating, ok \in BOOLEAN :
             createTicketChannel_create(p, ok) => counters' = counters]_vars

\* the create with number 1 of a category failed to create its channel and
\* the next create of the category got number 2 and its channel
C18_Witness ==
    \E c \in ticketOptions :
        /\ Len(issued[c]) >= 2
        /\ \A p \in creating : p.ch # 0
        /\ \A t \in ChannelIDs :
              chan[t].name # <<c, "-", "0", "0", "0", "1">>
        /\ \E t \in ChannelIDs :
              chan[t].name = <<c, "-", "0", "0", "0", "2">>

\* C19: when getNextSequenceValue fails, the create ends there: no channel
\* is created, no ticket is started, and the requester gets the failure
\* response.
C19_AllocationFailure ==
    [][\A member \in Users, topicValue \in ticketOptions, applied \in BOOLEAN :
          createTicketChannel_alloc(member, topicValue, MaxCreates, FALSE, applied)
              => /\ chan' = chan
                 /\ creating' = creating
                 /\ issued' = issued
                 /\ last'.op = "ticket_topic_select"
                 /\ last'.resp = "SequenceFailed"]_vars

\* a create was answered with the failure of the sequence, with no handler
\* left to create a channel
C19_Witness ==
    /\ last.op = "ticket_topic_select"
    /\ last.resp = "SequenceFailed"
    /\ creating = {}
    /\ started > 0

\* C20: when the creation of the channel fails, the create ends without
\* ticket and the requester gets a failure response, so that every create
\* is answered.
C20_ChannelFailureAnswered ==
    [][\A p \in creating :
          createTicketChannel_create(p, FALSE)
              => (chan' = chan /\ last'.resp # "none")]_vars


(* --------------------------- the ticket's life ------------------------- *)

\* no interaction of the channel is being handled: every handler that was
\* started on it has finished or is in the sleep of main.go:237
Settled(t) == \A h \in BagToSet(handlers) : h.ch = t => h.pc = 238

\* C2: whenever the handlers have finished, a Closed ticket has no owner
\* visibility grant and has the support role's visibility grant.
C2_ClosedHidesOwner ==
    \A t \in ChannelIDs :
        (Settled(t) /\ TicketState(t) = "Closed") =>
            /\ View \notin chan[t].overwrites[OwnerOf(t)].allow
            /\ View \in chan[t].overwrites[SupportRoleOf(t)].allow

\* C3: on every ticket channel the everyone role is denied visibility, and
\* no event replaces or removes that denial.
C3_EveryoneDenied ==
    \A t \in ChannelIDs :
        IsChannel(t) =>
            /\ chan[t].overwrites[guildID].type = "role"
            /\ View \in chan[t].overwrites[guildID].deny
            /\ View \notin chan[t].overwrites[guildID].allow

\* C4: a claim handled while the ticket message already shows an assignee is
\* rejected, for every actor, and changes nothing on the ticket.
C4_ClaimRejectedWhenAssigned ==
    [][\A e \in BagToSet(handlers), ok \in BOOLEAN :
          (handleClaimTicket(e, ok) /\ IsChannel(e.ch) /\ AssigneeOf(e.ch) # "")
              => (last'.resp = "AlreadyAssigned" /\ chan' = chan)]_vars

\* C5: a claim by a member who holds no configured support role is not
\* accepted and leaves the ticket as it is.
C5_ClaimOnlyBySupport ==
    [][\A e \in BagToSet(handlers), ok \in BOOLEAN :
          (handleClaimTicket(e, ok) /\ ~isManager(e.member))
              => (last'.resp # "Assigned" /\ chan' = chan)]_vars

\* C6: the reopen handler of a member who holds no configured support role,
\* on a Closed ticket, leaves the channel in the closed area and the owner's
\* visibility revoked.
C6_ReopenOnlyBySupport ==
    [][\A h \in BagToSet(handlers), ok \in BOOLEAN :
          (/\ handleReopenTicket_393(h, ok) \/ handleReopenTicket_404(h, ok)
           /\ ~isManager(h.member)
           /\ TicketState(h.ch) = "Closed")
              => /\ chan'[h.ch].parent = closedTicketsCategoryID
                 /\ View \notin chan'[h.ch].overwrites[OwnerOf(h.ch)].allow]_vars

\* C7: a delete by a member who holds no configured support role is denied:
\* the channel is not removed for it.
C7_DeleteOnlyBySupport ==
    [][\A d \in BagToSet(handlers), ok \in BOOLEAN :
          (ChannelDelete(d, ok) /\ ~isManager(d.member)) => chan' = chan]_vars

\* C8: a channel is removed only after the ticket's transcript was delivered
\* to the archival channel.
C8_TranscriptBeforeRemoval ==
    \A t \in ChannelIDs : chan[t].status = "deleted" => t \in archive

\* C9: at the moment its channel is removed, a ticket is Closed.
C9_DeletedOnlyFromClosed ==
    [][\A t \in ChannelIDs :
          (IsChannel(t) /\ chan'[t].status = "deleted")
              => TicketState(t) = "Closed"]_vars

\* C10: a transfer is judged on the overwrites its handler read from the
\* channel (main.go:299): when the target has no overwrite there that allows
\* the view, the handler ends at its tests with a refusal, the messages and
\* the assignee as they are; an executor who holds a configured support
\* role, the ticket message found, is told that the target cannot see the
\* channel.
C10_TransferNeedsVisibleTarget ==
    [][/\ \A h \in BagToSet(handlers') :
             (CopiesIn(h, handlers') > CopiesIn(h, handlers) /\ h.pc = 305)
                 => h.seen = chan[h.ch].overwrites
       /\ \A h \in BagToSet(handlers), messagesOk \in BOOLEAN :
             (/\ handleChangeAssignee_305(h, messagesOk)
              /\ View \notin h.seen[h.user].allow)
                 => /\ last'.op = "handleChangeAssignee"
                    /\ last'.resp \in {"FindFailed", "NoTicketMessage",
                                       "NoPermission", "CannotSee"}
                    /\ handlers' = handlers (-) SetToBag({h})
                    /\ chan' = chan
                    /\ (/\ isManager(h.member)
                        /\ messagesOk
                        /\ findTicketMessage(chan[h.ch].messages) # 0)
                          => last'.resp = "CannotSee"]_vars

\* a transfer was refused for the target's missing visibility on a ticket
\* without assignee, where only a support-role holder gets that far
C10_Witness ==
    /\ last.op = "handleChangeAssignee"
    /\ last.resp = "CannotSee"
    /\ IsChannel(last.ch)
    /\ \A k \in DOMAIN chan[last.ch].messages :
          chan[last.ch].messages[k].assignee = NoField

\* C11: a transfer whose executor, when its handler looks for the ticket
\* message, neither holds a configured support role nor is the ticket's
\* current assignee (the member the last accepted claim or transfer named,
\* none included) is refused there and changes nothing.
C11_TransferOnlyBySupportOrAssignee ==
    [][\A h \in BagToSet(handlers), messagesOk \in BOOLEAN :
          (/\ handleChangeAssignee_305(h, messagesOk)
           /\ ~isManager(h.member)
           /\ h.member # LastAssigned(h.ch))
              => /\ last'.op = "handleChangeAssignee"
                 /\ last'.resp # "none"
                 /\ handlers' = handlers (-) SetToBag({h})
                 /\ chan' = chan]_vars

\* C12: once a ticket has an assignee, the assignee changes only by an
\* accepted transfer: no other step changes or clears the assignee field of
\* the ticket message or the assignee last made.
C12_AssigneeChangesOnlyByTransfer ==
    [][\A t \in ChannelIDs :
          (/\ IsChannel(t) /\ chan'[t].status = "live"
           /\ ~(\E h \in BagToSet(handlers) : handleChangeAssignee_371(h, TRUE)))
              => /\ AssigneeOf(t) # "" => AssigneeOf(t)' = AssigneeOf(t)
                 /\ LastAssigned(t) # "" => LastAssigned(t)' = LastAssigned(t)]_vars

\* C13: removing the support role resolved for a ticket's category is
\* refused and changes nothing, and on every ticket channel that role keeps
\* its overwrite allowing view and send.
C13_SupportRoleNotRemovable ==
    [][/\ \A t \in ChannelIDs :
             chan'[t].status = "live" =>
                 chan'[t].overwrites[supportRoleFor(chan'[t].name[1])]
                     = [type |-> "role", allow |-> {View, Send}, deny |-> {}]
       /\ \A h \in BagToSet(handlers) :
             (/\ removeRoleFromTicket_506(h, TRUE)
              /\ IsChannel(h.ch)
              /\ h.user = SupportRoleOf(h.ch))
                 => /\ last'.resp = "CannotRemove"
                    /\ chan' = chan
                    /\ handlers' = handlers (-) SetToBag({h})]_vars

\* the removal of a configured support role was refused on a ticket of the
\* category that has a support role of its own
C13_Witness ==
    /\ last.op = "removeRoleFromTicket"
    /\ last.resp = "CannotRemove"
    /\ IsChannel(last.ch)
    /\ SupportRoleOf(last.ch) # defaultSupportRoleID

\* C14: adding a participant twice is idempotent: an add of a user or of a
\* role that set the overwrite leaves the subject found, and an add handled
\* when the subject is found reports that it is already added, makes no
\* permission call and leaves the overwrites as they are.
C14_AddIsIdempotent ==
    [][/\ \A h \in BagToSet(handlers) :
             /\ (addUserToTicket_444(h, TRUE) /\ IsChannel(h.ch))
                   => addUserToTicket_found(chan'[h.ch].overwrites, h.user)
             /\ (addRoleToTicket_472(h, TRUE) /\ IsChannel(h.ch))
                   => addRoleToTicket_found(chan'[h.ch].overwrites, h.user)
       /\ \A h \in BagToSet(handlers) :
             /\ (/\ addUserToTicket_431(h, TRUE)
                 /\ IsChannel(h.ch)
                 /\ addUserToTicket_found(chan[h.ch].overwrites, h.user))
                    => /\ last'.resp = "AlreadyAdded"
                       /\ chan' = chan
                       /\ handlers' = handlers (-) SetToBag({h})
             /\ (/\ addRoleToTicket_455(h, TRUE)
                 /\ IsChannel(h.ch)
                 /\ addRoleToTicket_found(chan[h.ch].overwrites, h.user))
                    => /\ last'.resp = "AlreadyAdded"
                       /\ chan' = chan
                       /\ handlers' = handlers (-) SetToBag({h})]_vars

\* an add was answered with "already added" when the only member overwrite
\* of the channel besides the owner's was put there by an earlier add, and
\* no add was on its way
C14_Witness ==
    /\ last.op = "addUserToTicket"
    /\ last.resp = "AlreadyAdded"
    /\ IsChannel(last.ch)
    /\ handlers = EmptyBag
    /\ \E u \in Users \ {OwnerOf(last.ch)} :
          {v \in Users : chan[last.ch].overwrites[v].type = "member"}
              = {u, OwnerOf(last.ch)}

\* C15: removing a user or a role that has no overwrite on the ticket is
\* answered with "not found" (for a configured support role: with the
\* refusal to remove it), reports no removal and changes nothing.
C15_RemoveOfAbsentIsNotFound ==
    [][\A h \in BagToSet(handlers) :
          /\ \A ok \in BOOLEAN :
                (/\ removeUserFromTicket_495(h, ok)
                 /\ IsChannel(h.ch)
                 /\ chan[h.ch].overwrites[h.user] = NoOverwrite)
                    => /\ last'.resp = "UserNotFound"
                       /\ chan' = chan
                       /\ handlers' = handlers (-) SetToBag({h})
          /\ (/\ removeRoleFromTicket_506(h, TRUE)
              /\ IsChannel(h.ch)
              /\ chan[h.ch].overwrites[h.user] = NoOverwrite)
                 => /\ last'.resp \in {"RoleNotFound", "CannotRemove"}
                    /\ chan' = chan
                    /\ handlers' = handlers (-) SetToBag({h})]_vars

\* C21: whenever the handlers have finished on an Open ticket, freshly
\* created or reopened, the owner's overwrite allows view and send, and so
\* do the overwrite of the ticket's support role and the overwrite of every
\* other member the channel is visible to by an overwrite of their own.
C21_OpenGrants ==
    \A t \in ChannelIDs :
        (Settled(t) /\ TicketState(t) = "Open") =>
            /\ {View, Send} \subseteq chan[t].overwrites[OwnerOf(t)].allow
            /\ {View, Send} \subseteq chan[t].overwrites[SupportRoleOf(t)].allow
            /\ \A u \in Users \ {OwnerOf(t)} :
                  View \in chan[t].overwrites[u].allow
                      => Send \in chan[t].overwrites[u].allow

\* C22: close followed by reopen is a round trip on the ticket: when the
\* call of confirm-close that replaces the owner's overwrite (main.go:258)
\* has succeeded on an Open ticket, the overwrites the call of reopen
\* (main.go:404) makes of the result are the ones before the close, for the
\* owner (allow and deny) and for everyone else.
C22_CloseReopenRoundTrip ==
    [][\A h \in BagToSet(handlers) :
          (/\ handleConfirmClose_258(h, TRUE)
           /\ TicketState(h.ch) = "Open")
              => LET back == handleReopenTicket_overwrites(
                                 chan'[h.ch].overwrites, h.user)
                 IN /\ back[h.user].allow = chan[h.ch].overwrites[h.user].allow
                    /\ back[h.user].deny = chan[h.ch].overwrites[h.user].deny
                    /\ \A s \in Subjects \ {h.user} :
                          back[s] = chan[h.ch].overwrites[s]]_vars

\* C23: a confirm-close on an Open ticket, its calls succeeding, closes the
\* ticket: the first call on the channel replaces the owner's overwrite by
\* one that allows nothing and denies the view, the second moves the channel
\* to the closed area, the third posts one admin panel with the reopen and
\* the delete button after the messages the channel has; each leaves
\* everything else on the channel as it is, the overwrites of the support
\* role and of the participants included, and when the third is made the
\* ticket is Closed, the owner's view is revoked and the support role's is
\* allowed.
C23_ConfirmCloseCloses ==
    [][\A h \in BagToSet(handlers) :
          LET t == h.ch IN
          /\ handleConfirmClose_258(h, TRUE)
                => /\ h.user = OwnerOf(t)
                   /\ chan' = [chan EXCEPT ![t].overwrites[h.user] =
                         [type |-> "member", allow |-> {}, deny |-> {View}]]
          /\ handleConfirmClose_259(h, TRUE)
                => chan' = [chan EXCEPT ![t].parent = closedTicketsCategoryID]
          /\ handleConfirmClose_266(h, TRUE)
                => /\ \E id \in (1..(Cardinality(UsedMessageIDs(t)) + 1))
                                  \ UsedMessageIDs(t) :
                         chan' = [chan EXCEPT ![t].messages =
                                     Append(@, adminPanel(id))]
                   /\ adminPanel(1).buttons
                         = {"reopen_ticket", "delete_ticket_permanent"}
                   /\ Cardinality(Panels(t))' = Cardinality(Panels(t)) + 1
                   /\ TicketState(t)' = "Closed"
                   /\ chan'[t].overwrites[OwnerOf(t)] =
                         [type |-> "member", allow |-> {}, deny |-> {View}]
                   /\ View \in chan'[t].overwrites[SupportRoleOf(t)].allow
                   /\ last'.resp = "AdminPanel"]_vars

\* C24: a close request (button or command) and a cancel of a confirmation
\* change nothing on the ticket: whenever one of them is handled, in any
\* order and any number of times, the channel with its area, overwrites,
\* messages and assignee is the one before, so the state of the ticket is
\* kept; a cancel handled on a Closed ticket leaves it Closed.
C24_RequestAndCancelKeepTicket ==
    [][\A t \in ChannelIDs :
          (/\ last'.ch = t
           /\ last'.op \in {"close_ticket_request", "closeTicket",
                            "cancel_close_ticket"})
              => /\ chan' = chan
                 /\ TicketState(t)' = TicketState(t)
                 /\ AssigneeOf(t)' = AssigneeOf(t)
                 /\ LastAssigned(t)' = LastAssigned(t)
                 /\ (last'.op = "cancel_close_ticket"
                     /\ TicketState(t) = "Closed")
                        => chan'[t].parent = closedTicketsCategoryID]_vars

\* a confirmation asked for on a Closed ticket was cancelled
C24_Witness ==
    /\ last.op = "cancel_close_ticket"
    /\ last.ch \in ChannelIDs
    /\ TicketState(last.ch) = "Closed"
    /\ dialogs[last.ch] = {}

\* C25: the close, add-user, remove-user, add-role, remove-role and transfer
\* commands, run in a channel whose topic names no owner, the channel read,
\* are each answered as not usable outside a ticket channel, start no call
\* and change no overwrite and no message of that channel.
C25_RejectedOutsideTicket ==
    [][\A h \in BagToSet(handlers) :
          (/\ IsChannel(h.ch)
           /\ getUserIDFromTopic(chan[h.ch].topic) = ""
           /\ \/ closeTicket_421(h, TRUE)
              \/ addUserToTicket_431(h, TRUE)
              \/ handleChangeAssignee_299(h, TRUE)
              \/ \E ok \in BOOLEAN : removeUserFromTicket_495(h, ok)
              \/ addRoleToTicket_455(h, TRUE)
              \/ removeRoleFromTicket_506(h, TRUE))
                  => /\ last'.resp = "NotTicketChannel"
                     /\ chan' = chan
                     /\ handlers' = handlers (-) SetToBag({h})
                     /\ dialogs' = dialogs]_vars

\* C26: a claim handled on an Open ticket without assignee, the response
\* succeeding, is accepted: the ticket message then names the acting member
\* as assignee and its claim button is disabled, while the area, the
\* overwrites and the state of the ticket are the ones before; a claim
\* pressed after that, whose message copy shows the assignee, is rejected
\* whoever the actor is, and the assignee stays.
C26_ClaimAssigns ==
    [][\A e \in BagToSet(handlers) :
          handleClaimTicket(e, TRUE)
              => /\ (TicketState(e.ch) = "Open" /\ AssigneeOf(e.ch) = "")
                       => /\ last'.resp = "Assigned"
                          /\ AssigneeOf(e.ch)' = e.member
                          /\ LastAssigned(e.ch)' = e.member
                          /\ "claim_ticket" \in TicketMessageOf(e.ch)'.disabled
                          /\ chan'[e.ch].parent = chan[e.ch].parent
                          /\ chan'[e.ch].overwrites = chan[e.ch].overwrites
                          /\ TicketState(e.ch)' = "Open"
                 /\ e.msg.assignee # NoField
                       => /\ last'.resp = "AlreadyAssigned"
                          /\ chan' = chan
                          /\ handlers' = handlers (-) SetToBag({e})
                          /\ AssigneeOf(e.ch)' = AssigneeOf(e.ch)]_vars

\* after an accepted and announced claim, a claim pressed later by another
\* member was rejected and the first claimant is still the assignee
C26_Witness ==
    /\ last.op = "claim_ticket"
    /\ last.resp = "AlreadyAssigned"
    /\ last.ch \in ChannelIDs
    /\ TicketState(last.ch) = "Open"
    /\ AssigneeOf(last.ch) # ""
    /\ AssigneeOf(last.ch) = LastAssigned(last.ch)
    /\ ClaimNotices(last.ch) = {AssigneeOf(last.ch)}
    /\ "claim_ticket" \in TicketMessageOf(last.ch).disabled
    /\ handlers = EmptyBag

\* C27: Deleted is terminal.  Once the channel of a ticket is removed, no
\* step changes anything of the ticket: the channel with its area,
\* overwrites, messages and assignee stays removed and no confirmation is
\* shown for it, so no notice, panel or public response is posted and the
\* ticket stays Deleted.  A handler started before the removal that makes a
\* call afterwards fails at it: the reads of the channel whose error is
\* dropped (main.go:252, 299, 392, 421) end the process; the reads whose
\* error is looked at (main.go:431, 455, 506) end the handler without a
\* response; the fetch of the messages (main.go:305), the edit of the ticket
\* message (main.go:371) and the calls that set or delete an overwrite
\* (main.go:444, 472, 495, 530) end the handler with the response that the
\* call failed.  What a handler answers to the member alone is no part of
\* the ticket: a transfer whose edit was made before the removal still
\* answers that the assignee was changed (main.go:387).
C27_DeletedIsTerminal ==
    [][/\ \A t \in ChannelIDs :
             TicketState(t) = "Deleted"
                 => /\ chan'[t] = chan[t]
                    /\ dialogs'[t] = dialogs[t]
                    /\ TicketState(t)' = "Deleted"
       /\ \A h \in BagToSet(handlers), ok \in BOOLEAN :
             TicketState(h.ch) = "Deleted"
                 => /\ (\/ closeTicket_421(h, ok)
                        \/ handleConfirmClose_252(h, ok)
                        \/ handleChangeAssignee_299(h, ok)
                        \/ handleReopenTicket_392(h, ok))
                          => /\ last'.resp = "Panic"
                             /\ handlers' = EmptyBag
                    /\ (\/ addUserToTicket_431(h, ok)
                        \/ addRoleToTicket_455(h, ok)
                        \/ removeRoleFromTicket_506(h, ok))
                          => Return(h) /\ last'.resp = "none"
                    /\ handleChangeAssignee_305(h, ok)
                          => Return(h) /\ last'.resp = "FindFailed"
                    /\ handleChangeAssignee_371(h, ok)
                          => Return(h) /\ last'.resp = "EditFailed"
                    /\ (addUserToTicket_444(h, ok) \/ addRoleToTicket_472(h, ok))
                          => Return(h) /\ last'.resp = "AddFailed"
                    /\ (\/ removeUserFromTicket_495(h, ok)
                        \/ removeRoleFromTicket_530(h, ok))
                          => Return(h) /\ last'.resp = "RemoveFailed"]_vars

\* a transfer that had found the ticket message before the channel was
\* removed made its edit after the removal, and the edit failed
C27_Witness ==
    /\ last.op = "handleChangeAssignee"
    /\ last.resp = "EditFailed"
    /\ last.ch \in ChannelIDs
    /\ TicketState(last.ch) = "Deleted"
    /\ chan[last.ch] = Deleted

\* C28: every call of getNextSequenceValue returns: a call that waits for
\* the store is eventually over, with a value or with an error, also when
\* the store never answers.
C28_CallReturns ==
    \A id \in 1..MaxNumbered :
        (\E w \in waiting : w.id = id) ~> (\A w \in waiting : w.id # id)

\* C29: an accepted transfer makes the target the ticket's assignee: the
\* ticket message, which a later claim reads, and the message a later
\* transfer finds both name the target; and a transfer run by the ticket's
\* current assignee is not refused for lack of permission.
C29_TransferSetsAssignee ==
    [][\A h \in BagToSet(handlers) :
          /\ (/\ handleChangeAssignee_371(h, TRUE)
              /\ last'.resp # "EditFailed")
                => /\ LastAssigned(h.ch)' = h.user
                   /\ AssigneeOf(h.ch)' = h.user
                   /\ FoundAssigneeOf(h.ch)' = h.user
          /\ (/\ handleChangeAssignee_305(h, TRUE)
              /\ LastAssigned(h.ch) # ""
              /\ h.member = LastAssigned(h.ch))
                => last'.resp # "NoPermission"]_vars

\* C30: every claim handler decides on the assignee field of the message
\* copy its own event carries, whatever the ticket message shows when the
\* event is handled: an event on a ticket in place is rejected exactly when
\* its copy has the field, and one whose response succeeds makes its member
\* the assignee and leaves the notice to post, also when another claim was
\* accepted in between; the notice names the member.  Two claims pressed on
\* the same unassigned ticket are therefore both accepted and announced.
C30_ClaimDecidesOnSnapshot ==
    [][/\ \A e \in BagToSet(handlers), ok \in BOOLEAN :
             (handleClaimTicket(e, ok) /\ IsChannel(e.ch))
                 => /\ (last'.resp = "AlreadyAssigned")
                          = (e.msg.assignee # NoField)
                    /\ (ok /\ e.msg.assignee = NoField)
                          => /\ last'.resp = "Assigned"
                             /\ AssigneeOf(e.ch)' = e.member
                             /\ \E h \in BagToSet(handlers') :
                                   /\ h.pc = 293
                                   /\ h.member = e.member
                                   /\ CopiesIn(h, handlers')
                                         > CopiesIn(h, handlers)
       /\ \A h \in BagToSet(handlers) :
             (handleClaimTicket_293(h, TRUE) /\ IsChannel(h.ch))
                 => ClaimNotices(h.ch)' = ClaimNotices(h.ch) \cup {h.member}]_vars

\* two different members had a claim accepted and announced on one ticket
C30_Witness ==
    \E t \in ChannelIDs :
        /\ IsChannel(t)
        /\ Cardinality(ClaimNotices(t)) >= 2
        /\ AssigneeOf(t) \in ClaimNotices(t)
        /\ Settled(t)

\* C31: the admin panel, the message with the reopen and the delete button,
\* exists exactly while the ticket is Closed and at most once per ticket:
\* whenever the handlers have finished, an Open ticket holds no admin panel
\* and a Closed ticket holds exactly one.
C31_OnePanelWhenClosed ==
    \A t \in ChannelIDs :
        Settled(t) =>
            /\ TicketState(t) = "Open" => Panels(t) = {}
            /\ TicketState(t) = "Closed" => Cardinality(Panels(t)) = 1

\* C32: confirm-close and reopen change the owner's visibility and the area
\* of the channel together or not at all: whenever the handlers have
\* finished, also one whose move of the channel failed, the channel of a
\* ticket is in the closed area exactly when its owner's overwrite does not
\* allow the view.
C32_AreaFollowsOwnerVisibility ==
    \A t \in ChannelIDs :
        (Settled(t) /\ IsChannel(t) /\ OwnerOf(t) # "") =>
            ((chan[t].parent = closedTicketsCategoryID)
                <=> (View \notin chan[t].overwrites[OwnerOf(t)].allow))

\* C33: the owner written into the topic is read back: for the member, the
\* category and the number of every created ticket, getUserIDFromTopic of
\* the topic createTicketChannel wrote is that member, and it is "" for a
\* topic without a "User ID:" part; no handler changes the topic or the name
\* of a channel once created, so the owner and the number stay.
C33_OwnerRoundTrip ==
    [][/\ \A p \in creating :
             (/\ last'.op = "ticket_topic_select"
              /\ last'.resp = "ChannelCreated"
              /\ createTicketChannel_create(p, TRUE))
                 => /\ chan'[last'.ch].topic =
                          topicOf(p.member, p.topicValue, ticketNumber(p.nextSeq))
                    /\ getUserIDFromTopic(chan'[last'.ch].topic) = p.member
       /\ \A t \in ChannelIDs :
             (IsChannel(t) /\ chan'[t].status = "live")
                 => /\ chan'[t].topic = chan[t].topic
                    /\ chan'[t].name = chan[t].name
                    /\ getUserIDFromTopic(chan'[t].topic) = OwnerOf(t)
       /\ \A topic \in PlainTopics : getUserIDFromTopic(topic) = ""]_vars

\* a ticket of the member with another role, numbered with four digits
\* other than zero, was closed and reopened and still names its owner
C33_Witness ==
    \E t \in ChannelIDs :
        /\ last.op = "reopen_ticket"
        /\ last.resp = "Reopened"
        /\ last.ch = t
        /\ TicketState(t) = "Open"
        /\ OwnerOf(t) = "u3"
        /\ chan[t].topic = topicOf("u3", "General", <<"9", "9", "9", "9">>)

====
